---- MODULE Spec2Model ----
(***************************************************************************)
(* Schedulify: the timetable generation engine of                          *)
(* src/src/lib/timetableAlgorithm.ts (class TimetableGenerator), the       *)
(* generator page that calls it and the grid that shows its result.        *)
(*                                                                         *)
(* One call of generateTimetable is modelled as a run of the state machine *)
(*   idle -> expand (one step per course) -> schedule (one step per        *)
(*   session) -> done,                                                     *)
(* with the two early returns going from idle to done directly.            *)
(*                                                                         *)
(* Identifiers (Date.now().toString() in the pages) are modelled as        *)
(* numbers, unique within their catalog.  Strings that the code only       *)
(* compares are TLA+ strings; strings that the code searches (course       *)
(* name, description, expertise keyword) are sequences of characters.      *)
(* Array.prototype.filter is SelectSeq.                                    *)
(*                                                                         *)
(* Specifications, all over the same actions:                              *)
(*   Spec          scheduling catalogs and catalogs with missing parts;    *)
(*   SpecDetect    detectConflicts on any session list;                    *)
(*   SpecChoice    catalogs that vary the order of the courses, the        *)
(*                 faculty and the rooms;                                  *)
(*   SpecRepeat    repeated calls on one generator, the clock ticking;     *)
(*   SpecCapacity  runs that fill the grid of 48 cells and overflow it;    *)
(*   FairSpec      one call under weak fairness, for termination;          *)
(*   SpecPairs     catalogs of two courses;                                *)
(*   SpecShort     the catalogs of FairSpec without fairness;              *)
(*   SpecEdit      the stored catalog edited between calls, and a          *)
(*                 generator constructed anew;                             *)
(*   SpecGreedy    catalogs on which first fit leaves a session out;       *)
(*   SpecBatch     createCourseEntries by itself, the clock running;       *)
(*   SpecGrid      the grid view on the timetable of a result;             *)
(*   FairPage      the generator page around the engine.                   *)
(*                                                                         *)
(* Where a recursive definition needs a value more than once, the value    *)
(* is bound as the element of a singleton set rather than by LET: TLC      *)
(* then computes it once, also inside ENABLED.                             *)
(***************************************************************************)
EXTENDS Integers, Sequences, FiniteSets, TLC

\* ------------------------------------------------------------------ bounds

\* Largest number of courses in the stored catalog.
MaxCourses == 2

\* Largest theoryHours / practicalHours of a course.
MaxHours == 2

\* ------------------------------------------------------- program constants

\* Messages are kept as tuples of their parts, so that the one built from a
\* template compares with the fixed ones.

WEEKDAYS == <<"Monday", "Tuesday", "Wednesday", "Thursday", "Friday", "Saturday">>

TIME_SLOTS ==
  <<"09:00-10:00", "10:00-11:00", "11:00-12:00", "12:00-13:00",
    "13:00-14:00", "14:00-15:00", "15:00-16:00", "16:00-17:00">>

MsgEmptyCatalog ==
  <<"Please ensure you have added programs, courses, faculty, and rooms before generating timetable.">>

MsgNoCourses == <<"No courses found for selected programs.">>

MsgSuccess == <<"Timetable generated successfully without conflicts!">>

\* `Timetable generated with ${n} conflicts. Please review and resolve.`
MsgConflicts(n) == <<"Timetable generated with ", n, " conflicts. Please review and resolve.">>

\* ---------------------------------------------------------------- helpers

Range(s) == {s[i] : i \in DOMAIN s}

\* String.prototype.toLowerCase on the characters the model uses.
LowerChar(c) ==
  CASE c = "A" -> "a"
    [] c = "B" -> "b"
    [] c = "M" -> "m"
    [] OTHER -> c

ToLowerCase(s) == [i \in DOMAIN s |-> LowerChar(s[i])]

\* String.prototype.includes: sub occurs in s as a contiguous run.
Includes(s, sub) ==
  \E i \in 0..(Len(s) - Len(sub)) : SubSeq(s, i + 1, i + Len(sub)) = sub

\* Array.prototype.find on an id: the first record with that id, or none.
FindById(s, id) ==
  LET hit == SelectSeq(s, LAMBDA x : x.id = id)
  IN  IF hit = <<>> THEN {} ELSE {hit[1]}

\* Mutant: the key leaves out the time label.
SlotKeyDayOnly(day, timeSlot) == <<day>>

\* `${day}-${timeSlot}`: the key of a grid cell in a Map.
SlotKey(day, timeSlot) == <<day, timeSlot>>

\* `faculty-${id}` and `room-${id}`: the resource tags kept per cell.
FacultyTag(id) == <<"faculty-", id>>
RoomTag(id) == <<"room-", id>>

\* ------------------------------------------------------------------ state

VARIABLES
  storage,           \* localStorage: programs, courses, faculty, rooms
  programs,          \* this.programs
  courses,           \* this.courses
  faculty,           \* this.faculty
  rooms,             \* this.rooms
  selectedPrograms,  \* the argument of generateTimetable (a set of ids)
  pc,                \* "idle", "expand", "schedule", "done"
  sortedCourses,     \* generateTimetable: sortedCourses
  ci,                \* number of courses already expanded
  timetable,         \* generateTimetable: timetable; scheduleEntries: entries
  si,                \* number of entries already pushed to `scheduled`
  occupiedSlots,     \* scheduleEntries: occupiedSlots (cell key -> tag set)
  result,            \* the GenerationResult returned, once pc = "done"
  clock,             \* Date.now(), in ticks
  calls,             \* number of calls of generateTimetable that returned
  instance,          \* which `new Generator()` of the page this generator is
  page               \* TimetableGenerator: the component's state and snapshot

vars ==
  <<storage, programs, courses, faculty, rooms, selectedPrograms, pc,
    sortedCourses, ci, timetable, si, occupiedSlots, result, clock, calls,
    instance, page>>

\* An unset slot, as createCourseEntries writes it.
UnsetSlot == [day |-> "", time |-> "", duration |-> 1]

NoResult == [timetable |-> <<>>, conflicts |-> <<>>, success |-> FALSE, message |-> <<>>]

EmptyMap == [k \in {} |-> {}]

\* No item under 'generated_timetable'; a stored result r is <<r>>.
NoSnapshot == <<>>

\* generationSuccess before any generation: null; a boolean b is <<b>>.
NullSuccess == <<>>

\* The page after its mount effect: every stored program is selected, nothing
\* is generating, and there is no stored timetable to show.
MountedPage(stored) ==
  [ selectedPrograms  |-> { stored.programs[k].id : k \in DOMAIN stored.programs },
    request           |-> {},
    isGenerating      |-> FALSE,
    timetable         |-> <<>>,
    conflicts         |-> <<>>,
    generationSuccess |-> NullSuccess,
    generationMessage |-> <<>>,
    snapshot          |-> NoSnapshot,
    toast             |-> <<>> ]

\* ------------------------------------------------- generateTimetable: parts

\* Mutant: generateTimetable works on the fields as they are.
LoadDataSkipped ==
  UNCHANGED <<programs, courses, faculty, rooms>>

\* loadData: every field is re-read from storage.
LoadData ==
  /\ programs' = storage.programs
  /\ courses' = storage.courses
  /\ faculty' = storage.faculty
  /\ rooms' = storage.rooms

\* Mutant: the rooms collection is not tested.
AnyCatalogEmptyButRooms(ps, cs, fs, rs) ==
  Len(ps) = 0 \/ Len(cs) = 0 \/ Len(fs) = 0

\* The guard of the first early return, on the catalogs just loaded.
AnyCatalogEmpty(ps, cs, fs, rs) ==
  Len(ps) = 0 \/ Len(cs) = 0 \/ Len(fs) = 0 \/ Len(rs) = 0

\* this.courses.filter(course => selectedPrograms.includes(course.program))
RelevantCourses(cs, selected) ==
  SelectSeq(cs, LAMBDA course : course.program \in selected)

\* Mutant: the comparator looks at the semester only.
CompareCoursesSemesterOnly(a, b) == a.semester - b.semester

\* The comparator of the sort: required courses first, then by semester.
CompareCourses(a, b) ==
  IF a.isElective # b.isElective
    THEN (IF a.isElective THEN 1 ELSE -1)
    ELSE a.semester - b.semester

\* Array.prototype.sort is stable: x goes before the first element that the
\* comparator places strictly after it.
RECURSIVE InsertCourse(_, _)
InsertCourse(x, sorted) ==
  IF sorted = <<>> THEN <<x>>
  ELSE IF CompareCourses(sorted[1], x) > 0 THEN <<x>> \o sorted
  ELSE <<sorted[1]>> \o InsertCourse(x, Tail(sorted))

RECURSIVE SortFrom(_, _, _)
SortFrom(cs, k, acc) ==
  IF k > Len(cs) THEN acc ELSE SortFrom(cs, k + 1, InsertCourse(cs[k], acc))

SortCourses(cs) == SortFrom(cs, 1, <<>>)

\* this.programs.find(p => p.id === course.program)
FindProgram(ps, course) == FindById(ps, course.program)

\* estimateStudentCount
EstimateStudentCount(program) ==
  CASE program.type = "B.Ed" -> 40
    [] program.type = "M.Ed" -> 30
    [] program.type = "FYUP" -> 60
    [] program.type = "ITEP" -> 35
    [] OTHER -> 30

\* Mutant: the strings are compared without toLowerCase().
ExpertiseMatchesCaseSensitive(f, course) ==
  \E k \in DOMAIN f.expertise :
    \/ Includes(course.name, f.expertise[k])
    \/ Includes(course.description, f.expertise[k])

\* f.expertise.some(exp => name or description includes exp, ignoring case)
ExpertiseMatches(f, course) ==
  \E k \in DOMAIN f.expertise :
    \/ Includes(ToLowerCase(course.name), ToLowerCase(f.expertise[k]))
    \/ Includes(ToLowerCase(course.description), ToLowerCase(f.expertise[k]))

\* suitableFaculty after the fallback push; the empty sequence if nobody can
\* teach the program.
SuitableFaculty(fs, course, program) ==
  LET canTeach == SelectSeq(fs, LAMBDA f : program.id \in f.canTeachPrograms)
      expert   == SelectSeq(fs, LAMBDA f : /\ program.id \in f.canTeachPrograms
                                        /\ ExpertiseMatches(f, course))
  IN  IF Len(expert) = 0 THEN canTeach ELSE expert

\* suitableFaculty[0] || this.faculty[0]; the empty set stands for undefined.
SelectedFaculty(fs, course, program) ==
  LET suitable == SuitableFaculty(fs, course, program)
  IN  IF Len(suitable) > 0 THEN {suitable[1]}
      ELSE IF Len(fs) > 0 THEN {fs[1]}
      ELSE {}

\* Mutant: the second room type of each kind is forgotten.
RoomSuitsFirstTypeOnly(room, type) ==
  IF type = "practical" THEN room.type = "Laboratory" ELSE room.type = "Classroom"

\* The room filter of createCourseEntries.
RoomSuits(room, type) ==
  IF type = "practical"
    THEN room.type = "Laboratory" \/ room.type = "Computer Lab"
    ELSE room.type = "Classroom" \/ room.type = "Seminar Hall"

\* suitableRooms[0] || this.rooms[0]; the empty set stands for undefined.
SelectedRoom(rs, type) ==
  LET suitable == SelectSeq(rs, LAMBDA room : RoomSuits(room, type))
  IN  IF Len(suitable) > 0 THEN {suitable[1]}
      ELSE IF Len(rs) > 0 THEN {rs[1]}
      ELSE {}

\* Mutant: a new entry is given the first cell of the grid at once.
NewEntryPreassigned(course, program, type, i, f, room) ==
  [ id           |-> <<course.id, type, i, clock>>,
    courseId     |-> course.id,
    courseName   |-> course.name,
    courseCode   |-> course.code,
    facultyId    |-> f.id,
    facultyName  |-> f.name,
    roomId       |-> room.id,
    roomName     |-> room.name,
    programId    |-> program.id,
    programName  |-> program.name,
    timeSlot     |-> [day |-> WEEKDAYS[1], time |-> TIME_SLOTS[1], duration |-> 1],
    studentCount |-> EstimateStudentCount(program),
    type         |-> type ]

\* One entry of the batch: ordinal i counts from 0 as in the code; the id
\* `${course.id}-${type}-${i}-${Date.now()}` is kept as the tuple of its parts.
NewEntry(course, program, type, i, f, room) ==
  [ id           |-> <<course.id, type, i, clock>>,
    courseId     |-> course.id,
    courseName   |-> course.name,
    courseCode   |-> course.code,
    facultyId    |-> f.id,
    facultyName  |-> f.name,
    roomId       |-> room.id,
    roomName     |-> room.name,
    programId    |-> program.id,
    programName  |-> program.name,
    timeSlot     |-> UnsetSlot,
    studentCount |-> EstimateStudentCount(program),
    type         |-> type ]

\* Mutant: the loop runs one time too few.
EntryCountOneShort(hours) == hours - 1

\* The loop bound of `for (let i = 0; i < hours; i++)`.
EntryCount(hours) == hours

\* createCourseEntries(course, program, type, hours)
CreateCourseEntries(course, program, type, hours) ==
  LET sf == SelectedFaculty(faculty, course, program)
      sr == SelectedRoom(rooms, type)
  IN  IF sf = {} THEN <<>>
      ELSE IF sr = {} THEN <<>>
      ELSE LET f == CHOOSE x \in sf : TRUE
               room == CHOOSE x \in sr : TRUE
           IN  [k \in 1..EntryCount(hours) |-> NewEntry(course, program, type, k - 1, f, room)]

\* Mutant: the practical sessions of a course are pushed before its theory
\* sessions.
CourseEntriesPracticalFirst(course) ==
  LET found == FindProgram(programs, course)
  IN  IF found = {} THEN <<>>
      ELSE LET program == CHOOSE p \in found : TRUE
               theory == IF course.theoryHours > 0
                           THEN CreateCourseEntries(course, program, "theory", course.theoryHours)
                           ELSE <<>>
               practical == IF course.practicalHours > 0
                              THEN CreateCourseEntries(course, program, "practical", course.practicalHours)
                              ELSE <<>>
           IN  practical \o theory

\* The body of the loop over sortedCourses, for one course: the entries it
\* pushes to timetable.
CourseEntries(course) ==
  LET found == FindProgram(programs, course)
  IN  IF found = {} THEN <<>>
      ELSE LET program == CHOOSE p \in found : TRUE
               theory == IF course.theoryHours > 0
                           THEN CreateCourseEntries(course, program, "theory", course.theoryHours)
                           ELSE <<>>
               practical == IF course.practicalHours > 0
                              THEN CreateCourseEntries(course, program, "practical", course.practicalHours)
                              ELSE <<>>
           IN  theory \o practical

\* --------------------------------------------------------- scheduleEntries

\* Mutant: the room's unavailableSlots are not consulted.
IsSlotAvailableFacultyOnly(facultyId, roomId, day, timeSlot) ==
  LET f == FindById(faculty, facultyId)
      r == FindById(rooms, roomId)
  IN  IF f = {} \/ r = {} THEN FALSE
      ELSE IF timeSlot \in (CHOOSE x \in f : TRUE).unavailableSlots THEN FALSE
      ELSE TRUE

\* Mutant: the faculty member's unavailableSlots are not consulted.
IsSlotAvailableRoomOnly(facultyId, roomId, day, timeSlot) ==
  LET f == FindById(faculty, facultyId)
      r == FindById(rooms, roomId)
  IN  IF f = {} \/ r = {} THEN FALSE
      ELSE IF timeSlot \in (CHOOSE x \in r : TRUE).unavailableSlots THEN FALSE
      ELSE TRUE

\* isSlotAvailable(facultyId, roomId, day, timeSlot): the day is not read.
IsSlotAvailable(facultyId, roomId, day, timeSlot) ==
  LET f == FindById(faculty, facultyId)
      r == FindById(rooms, roomId)
  IN  IF f = {} \/ r = {} THEN FALSE
      ELSE IF timeSlot \in (CHOOSE x \in f : TRUE).unavailableSlots THEN FALSE
      ELSE IF timeSlot \in (CHOOSE x \in r : TRUE).unavailableSlots THEN FALSE
      ELSE TRUE

\* occupiedSlots.get(slotKey) after the `if (!has) set(new Set())`.
EnsureKey(occ, key) == IF key \in DOMAIN occ THEN occ ELSE occ @@ (key :> {})

\* Mutant: only the faculty tag is tested.
ResourcesFreeFacultyOnly(occupiedResources, entry) ==
  FacultyTag(entry.facultyId) \notin occupiedResources

\* The two occupancy tests of the `if` in the inner loop.
ResourcesFree(occupiedResources, entry) ==
  /\ FacultyTag(entry.facultyId) \notin occupiedResources
  /\ RoomTag(entry.roomId) \notin occupiedResources

\* Mutant: the room tag is not recorded.
AddedTagsFacultyOnly(entry) == {FacultyTag(entry.facultyId)}

\* The tags that a successful assignment adds to the cell.
AddedTags(entry) == {FacultyTag(entry.facultyId), RoomTag(entry.roomId)}

\* The result of a scan: the occupancy map, whether a slot was assigned, and
\* the entry with the slot it was given last.
ScanResult(occ, assigned, entry) == [occ |-> occ, assigned |-> assigned, entry |-> entry]

\* Mutant: the inner loop stops one label short.
RECURSIVE ScanTimesSkipLastLabel(_, _, _, _)
ScanTimesSkipLastLabel(occ, entry, d, t) ==
  IF t >= Len(TIME_SLOTS) THEN ScanResult(occ, FALSE, entry)
  ELSE LET day == WEEKDAYS[d]
           timeSlot == TIME_SLOTS[t]
           slotKey == SlotKey(day, timeSlot)
           occ1 == EnsureKey(occ, slotKey)
       IN  IF /\ ResourcesFree(occ1[slotKey], entry)
              /\ IsSlotAvailable(entry.facultyId, entry.roomId, day, timeSlot)
             THEN ScanResult(
                    [occ1 EXCEPT ![slotKey] = @ \cup AddedTags(entry)],
                    TRUE,
                    [entry EXCEPT !.timeSlot = [day |-> day, time |-> timeSlot, duration |-> 1]])
             ELSE ScanTimesSkipLastLabel(occ1, entry, d, t + 1)

\* The inner loop over TIME_SLOTS for day WEEKDAYS[d], from index t on; it
\* breaks at the first cell that passes the test.  The map after the
\* `set(new Set())` is bound as the element of a singleton, so that it is
\* computed once per cell.
RECURSIVE ScanTimes(_, _, _, _)
ScanTimes(occ, entry, d, t) ==
  IF t > Len(TIME_SLOTS) THEN ScanResult(occ, FALSE, entry)
  ELSE LET day == WEEKDAYS[d]
           timeSlot == TIME_SLOTS[t]
           slotKey == SlotKey(day, timeSlot)
       IN  CHOOSE scanned \in
             { IF /\ ResourcesFree(occ1[slotKey], entry)
                  /\ IsSlotAvailable(entry.facultyId, entry.roomId, day, timeSlot)
                 THEN ScanResult(
                        [occ1 EXCEPT ![slotKey] = @ \cup AddedTags(entry)],
                        TRUE,
                        [entry EXCEPT !.timeSlot = [day |-> day, time |-> timeSlot, duration |-> 1]])
                 ELSE ScanTimes(occ1, entry, d, t + 1)
               : occ1 \in {EnsureKey(occ, slotKey)} } : TRUE

\* Mutant: the outer loop lacks `if (assigned) break`, so the scan goes on
\* through the later days and assigns again.
RECURSIVE ScanDaysNoBreak(_, _, _)
ScanDaysNoBreak(occ, entry, d) ==
  IF d > Len(WEEKDAYS) THEN ScanResult(occ, FALSE, entry)
  ELSE LET r == ScanTimes(occ, entry, d, 1)
           rest == ScanDaysNoBreak(r.occ, r.entry, d + 1)
       IN  ScanResult(rest.occ, r.assigned \/ rest.assigned, rest.entry)

\* Mutant: the outer loop stops one day short.
RECURSIVE ScanDaysSkipLastDay(_, _, _)
ScanDaysSkipLastDay(occ, entry, d) ==
  IF d >= Len(WEEKDAYS) THEN ScanResult(occ, FALSE, entry)
  ELSE LET r == ScanTimes(occ, entry, d, 1)
       IN  IF r.assigned THEN r ELSE ScanDaysSkipLastDay(r.occ, entry, d + 1)

\* The outer loop over WEEKDAYS from index d on, with `if (assigned) break`.
\* The result of the inner loop is bound as the element of a singleton, so
\* that it is computed once per day.
RECURSIVE ScanDays(_, _, _)
ScanDays(occ, entry, d) ==
  IF d > Len(WEEKDAYS) THEN ScanResult(occ, FALSE, entry)
  ELSE CHOOSE scanned \in
         { IF r.assigned THEN r ELSE ScanDays(r.occ, entry, d + 1)
           : r \in {ScanTimes(occ, entry, d, 1)} } : TRUE

\* Mutant: the scan looks at the last day before the others.
PlaceEntryLastDayFirst(occ, entry) ==
  LET r == ScanTimes(occ, entry, Len(WEEKDAYS), 1)
  IN  IF r.assigned THEN r ELSE ScanDays(r.occ, entry, 1)

\* One iteration of `for (const entry of entries)`.
PlaceEntry(occ, entry) == ScanDays(occ, entry, 1)

\* --------------------------------------------------------- detectConflicts

\* `entry.timeSlot.day && entry.timeSlot.time`: both strings are non-empty.
HasSlot(entry) == entry.timeSlot.day # "" /\ entry.timeSlot.time # ""

EntryKey(entry) == SlotKey(entry.timeSlot.day, entry.timeSlot.time)

\* Mutant: the notice for an unscheduled session is of medium severity.
UnscheduledConflictMedium(entry) ==
  [ type        |-> "faculty_conflict",
    description |-> <<"Course ", entry.courseCode, " (", entry.courseName, ") could not be scheduled">>,
    severity    |-> "medium" ]

UnscheduledConflict(entry) ==
  [ type        |-> "faculty_conflict",
    description |-> <<"Course ", entry.courseCode, " (", entry.courseName, ") could not be scheduled">>,
    severity    |-> "high" ]

FacultyConflict(entry, slot) ==
  [ type        |-> "faculty_conflict",
    description |-> <<"Faculty ", entry.facultyName, " has multiple classes at ", slot>>,
    severity    |-> "high" ]

RoomConflict(entry, slot) ==
  [ type        |-> "room_conflict",
    description |-> <<"Room ", entry.roomName, " has multiple classes at ", slot>>,
    severity    |-> "high" ]

\* Mutant: an unscheduled course is reported once, not once per session.
RECURSIVE UnscheduledOncePerCourse(_)
UnscheduledOncePerCourse(tt) ==
  IF tt = <<>> THEN <<>>
  ELSE LET rest == UnscheduledOncePerCourse(Tail(tt))
       IN  IF HasSlot(tt[1]) \/ UnscheduledConflict(tt[1]) \in Range(rest)
             THEN rest
             ELSE <<UnscheduledConflict(tt[1])>> \o rest

\* First pass, entries lo..hi of the list: one conflict per entry without a
\* slot, in list order.  The range is taken in two halves, lower half first,
\* which keeps the nesting of the definition at the logarithm of the length.
RECURSIVE UnscheduledBetween(_, _, _)
UnscheduledBetween(tt, lo, hi) ==
  IF lo > hi THEN <<>>
  ELSE IF lo = hi
         THEN (IF HasSlot(tt[lo]) THEN <<>> ELSE <<UnscheduledConflict(tt[lo])>>)
  ELSE UnscheduledBetween(tt, lo, (lo + hi) \div 2)
         \o UnscheduledBetween(tt, ((lo + hi) \div 2) + 1, hi)

\* First pass: one conflict per entry without a slot, in list order.
UnscheduledConflicts(tt) == UnscheduledBetween(tt, 1, Len(tt))

\* First pass, entries lo..hi of the list: the keys of slotMap in insertion
\* order, those of `seen` left out.  The upper half is taken with the keys
\* of the lower half added to `seen`.
RECURSIVE SlotMapKeysBetween(_, _, _, _)
SlotMapKeysBetween(tt, lo, hi, seen) ==
  IF lo > hi THEN <<>>
  ELSE IF lo = hi
         THEN (IF HasSlot(tt[lo]) /\ EntryKey(tt[lo]) \notin seen
                 THEN <<EntryKey(tt[lo])>> ELSE <<>>)
  ELSE CHOOSE keys \in
         { first \o SlotMapKeysBetween(tt, ((lo + hi) \div 2) + 1, hi,
                                       seen \cup Range(first))
           : first \in {SlotMapKeysBetween(tt, lo, (lo + hi) \div 2, seen)} } : TRUE

\* First pass: the keys of slotMap in insertion order.
SlotMapKeys(tt, seen) == SlotMapKeysBetween(tt, 1, Len(tt), seen)

\* slotMap.get(key): the entries of that cell in list order.
SlotMapGet(tt, key) == SelectSeq(tt, LAMBDA e : HasSlot(e) /\ EntryKey(e) = key)

\* Mutant: the sets remember only the ids of the entry just before.
RECURSIVE CellConflictsLastSeenOnly(_, _, _, _)
CellConflictsLastSeenOnly(entries, slot, facultyIds, roomIds) ==
  IF entries = <<>> THEN <<>>
  ELSE LET entry == entries[1]
       IN  (IF entry.facultyId \in facultyIds THEN <<FacultyConflict(entry, slot)>> ELSE <<>>)
           \o (IF entry.roomId \in roomIds THEN <<RoomConflict(entry, slot)>> ELSE <<>>)
           \o CellConflictsLastSeenOnly(Tail(entries), slot,
                                        {entry.facultyId}, {entry.roomId})

\* Second pass, one cell: the entries in order against the ids seen so far.
RECURSIVE CellConflicts(_, _, _, _)
CellConflicts(entries, slot, facultyIds, roomIds) ==
  IF entries = <<>> THEN <<>>
  ELSE LET entry == entries[1]
       IN  (IF entry.facultyId \in facultyIds THEN <<FacultyConflict(entry, slot)>> ELSE <<>>)
           \o (IF entry.roomId \in roomIds THEN <<RoomConflict(entry, slot)>> ELSE <<>>)
           \o CellConflicts(Tail(entries), slot,
                            facultyIds \cup {entry.facultyId}, roomIds \cup {entry.roomId})

\* Second pass, keys lo..hi: slotMap.forEach in insertion order; the range
\* is taken in two halves, lower half first.
RECURSIVE CollisionsBetween(_, _, _, _)
CollisionsBetween(tt, keys, lo, hi) ==
  IF lo > hi THEN <<>>
  ELSE IF lo = hi
         THEN CellConflicts(SlotMapGet(tt, keys[lo]), keys[lo], {}, {})
  ELSE CollisionsBetween(tt, keys, lo, (lo + hi) \div 2)
         \o CollisionsBetween(tt, keys, ((lo + hi) \div 2) + 1, hi)

\* Second pass: slotMap.forEach in insertion order.
CollisionConflicts(tt, keys) == CollisionsBetween(tt, keys, 1, Len(keys))

\* detectConflicts(timetable)
DetectConflicts(tt) ==
  CHOOSE conflicts \in
    { UnscheduledConflicts(tt) \o CollisionConflicts(tt, keys)
      : keys \in {SlotMapKeys(tt, {})} } : TRUE

\* detectedConflicts.filter(c => c.severity === 'high').length === 0
NoHighConflict(conflicts) ==
  Len(SelectSeq(conflicts, LAMBDA c : c.severity = "high")) = 0

\* Mutant: the filter tests for the wrong severity.
SuccessOfMedium(conflicts) ==
  Len(SelectSeq(conflicts, LAMBDA c : c.severity = "medium")) = 0

\* The `success` field of the final return.
SuccessOf(conflicts) == NoHighConflict(conflicts)

\* Mutant: the message always counts the conflicts.
MessageOfAlwaysCount(conflicts) == MsgConflicts(Len(conflicts))

\* The `message` field of the final return.
MessageOf(conflicts) ==
  IF Len(conflicts) = 0 THEN MsgSuccess ELSE MsgConflicts(Len(conflicts))

\* The two early returns.
EmptyCatalogResult ==
  [timetable |-> <<>>, conflicts |-> <<>>, success |-> FALSE, message |-> MsgEmptyCatalog]

NoCoursesResult ==
  [timetable |-> <<>>, conflicts |-> <<>>, success |-> FALSE, message |-> MsgNoCourses]

\* ------------------------------------------------------------ the catalogs

\* Records as the management pages store them (the fields the engine reads).
ProgramTypeOf(i) == IF i = 1 THEN "B.Ed" ELSE IF i = 2 THEN "FYUP" ELSE "Other"

ProgramRec(i) == [id |-> i, name |-> <<"Program ", i>>, type |-> ProgramTypeOf(i)]

FacultyRec(i, canTeach, expertise, unavailable) ==
  [ id |-> i, name |-> <<"Faculty ", i>>, canTeachPrograms |-> canTeach,
    expertise |-> expertise, unavailableSlots |-> unavailable ]

RoomRec(i, type, unavailable) ==
  [id |-> i, name |-> <<"Room ", i>>, type |-> type, unavailableSlots |-> unavailable]

CourseRec(i, program, isElective, semester, theoryHours, practicalHours, text) ==
  [ id |-> i, name |-> text.name, code |-> <<"C", i>>, program |-> program,
    isElective |-> isElective, semester |-> semester,
    theoryHours |-> theoryHours, practicalHours |-> practicalHours,
    description |-> text.description ]

\* Two course texts and the two expertise keywords that match them, one by the
\* name and one by the description, both only when case is ignored.
TextA == [name |-> <<"M", "a">>, description |-> <<>>]
TextB == [name |-> <<"x">>, description |-> <<"a", "B">>]
KeywordA == <<"m", "A">>
KeywordB == <<"b">>

FirstLabel == TIME_SLOTS[1]
LastLabel == TIME_SLOTS[Len(TIME_SLOTS)]
AllButLast == Range(TIME_SLOTS) \ {LastLabel}

\* Ids a selection or a course may name: the programs of the catalog and one
\* that was deleted from it.
ProgramRefs == {1, 2}

\* Course lists: positions are ids, the other fields come from `fields`.
CourseLists(minLen, fields) ==
  UNION { { [i \in 1..n |->
              CourseRec(i, c[i].program, c[i].isElective, c[i].semester,
                        c[i].theoryHours, c[i].practicalHours, c[i].text)]
            : c \in [1..n -> fields] }
          : n \in minLen..MaxCourses }

\* Scheduling catalogs: one program; two faculty told apart by expertise, the
\* first maybe free at the last label only, the second never free at the
\* first; a classroom maybe closed at the last label and a laboratory closed
\* at the first.
SchedulingCourseFields ==
  [ program : {1}, isElective : {FALSE}, semester : {1},
    theoryHours : {1, MaxHours}, practicalHours : {0, MaxHours},
    text : {TextA, TextB} ]

SchedulingCatalogs ==
  { [ programs |-> <<ProgramRec(1)>>,
      courses  |-> cs,
      faculty  |-> << FacultyRec(1, {1}, <<KeywordA>>, u1),
                      FacultyRec(2, {1}, <<KeywordB>>, {FirstLabel}) >>,
      rooms    |-> << RoomRec(1, "Classroom", ur1),
                      RoomRec(2, "Laboratory", {FirstLabel}) >> ]
    : cs \in CourseLists(1, SchedulingCourseFields),
      u1 \in {{}, AllButLast},
      ur1 \in {{}, {LastLabel}} }

\* Catalogs with missing parts: each collection may be empty, and a course
\* may name a program that is not in the catalog.
SparseCourseFields ==
  [ program : ProgramRefs, isElective : {FALSE}, semester : {1},
    theoryHours : {0, MaxHours}, practicalHours : {0, 1},
    text : {TextA} ]

SparseCatalogs ==
  { [ programs |-> ps, courses |-> cs, faculty |-> fs, rooms |-> rs ]
    : ps \in {<<>>, <<ProgramRec(1)>>, <<ProgramRec(1), ProgramRec(2)>>},
      cs \in CourseLists(0, SparseCourseFields),
      fs \in {<<>>, <<FacultyRec(1, {1}, <<>>, {})>>},
      rs \in {<<>>, <<RoomRec(1, "Classroom", {})>>} }

Catalogs == SchedulingCatalogs \cup SparseCatalogs

\* ---------------------------------------------------------------- actions

\* new TimetableGenerator() over one stored catalog of a family: the
\* constructor loads the catalog.
InitWith(catalogs) ==
  /\ storage \in catalogs
  /\ programs = storage.programs
  /\ courses = storage.courses
  /\ faculty = storage.faculty
  /\ rooms = storage.rooms
  /\ selectedPrograms = {}
  /\ pc = "idle"
  /\ sortedCourses = <<>>
  /\ ci = 0
  /\ timetable = <<>>
  /\ si = 0
  /\ occupiedSlots = EmptyMap
  /\ result = NoResult
  /\ clock = 0
  /\ calls = 0
  /\ instance = 1
  /\ page = MountedPage(storage)

Init == InitWith(Catalogs)

\* Mutant: the test can never hold.
NoneRelevantNegative(relevant) == Len(relevant) < 0

\* relevantCourses.length === 0
NoneRelevant(relevant) == Len(relevant) = 0

\* generateTimetable(selected), first early return: a catalog is empty.
ReturnEmptyCatalog(selected) ==
  /\ pc = "idle"
  /\ LoadData
  /\ AnyCatalogEmpty(storage.programs, storage.courses, storage.faculty, storage.rooms)
  /\ selectedPrograms' = selected
  /\ result' = EmptyCatalogResult
  /\ pc' = "done"
  /\ calls' = calls + 1
  /\ UNCHANGED <<instance, page, storage, sortedCourses, ci, timetable, si, occupiedSlots, clock>>

\* generateTimetable(selected), second early return: no course is selected.
ReturnNoCourses(selected) ==
  /\ pc = "idle"
  /\ LoadData
  /\ ~AnyCatalogEmpty(storage.programs, storage.courses, storage.faculty, storage.rooms)
  /\ NoneRelevant(RelevantCourses(storage.courses, selected))
  /\ selectedPrograms' = selected
  /\ result' = NoCoursesResult
  /\ pc' = "done"
  /\ calls' = calls + 1
  /\ UNCHANGED <<instance, page, storage, sortedCourses, ci, timetable, si, occupiedSlots, clock>>

\* Mutant: occupiedSlots is a field that outlives the call.
BeginExpansionKeepsOccupancy(selected) ==
  /\ pc = "idle"
  /\ LoadData
  /\ ~AnyCatalogEmpty(storage.programs, storage.courses, storage.faculty, storage.rooms)
  /\ ~NoneRelevant(RelevantCourses(storage.courses, selected))
  /\ selectedPrograms' = selected
  /\ sortedCourses' = SortCourses(RelevantCourses(storage.courses, selected))
  /\ ci' = 0
  /\ timetable' = <<>>
  /\ si' = 0
  /\ pc' = IF Len(sortedCourses') = 0 THEN "schedule" ELSE "expand"
  /\ UNCHANGED <<instance, page, storage, result, clock, calls, occupiedSlots>>

\* generateTimetable(selected) up to the sort: the loop over sortedCourses
\* is entered with an empty timetable.
BeginExpansion(selected) ==
  /\ pc = "idle"
  /\ LoadData
  /\ ~AnyCatalogEmpty(storage.programs, storage.courses, storage.faculty, storage.rooms)
  /\ ~NoneRelevant(RelevantCourses(storage.courses, selected))
  /\ selectedPrograms' = selected
  /\ sortedCourses' = SortCourses(RelevantCourses(storage.courses, selected))
  /\ ci' = 0
  /\ timetable' = <<>>
  /\ si' = 0
  /\ occupiedSlots' = EmptyMap
  /\ pc' = IF Len(sortedCourses') = 0 THEN "schedule" ELSE "expand"
  /\ UNCHANGED <<instance, page, storage, result, clock, calls>>

\* One iteration of `for (const course of sortedCourses)`; after the last
\* one scheduleEntries is entered with empty `scheduled` and occupiedSlots.
ExpandCourse ==
  /\ pc = "expand"
  /\ ci < Len(sortedCourses)
  /\ timetable' = timetable \o CourseEntries(sortedCourses[ci + 1])
  /\ ci' = ci + 1
  /\ pc' = IF ci' = Len(sortedCourses) THEN "schedule" ELSE "expand"
  /\ UNCHANGED <<instance, page, storage, programs, courses, faculty, rooms, selectedPrograms,
                 sortedCourses, si, occupiedSlots, result, clock, calls>>

\* Mutant: the loop over the entries does not move on to the next entry.
ScheduleEntryNoProgress ==
  /\ pc = "schedule"
  /\ si < Len(timetable)
  /\ UNCHANGED <<instance, page, storage, programs, courses, faculty, rooms, selectedPrograms,
                 pc, sortedCourses, ci, timetable, si, occupiedSlots, result,
                 clock, calls>>

\* Mutant: only the entries that were given a cell are pushed to `scheduled`.
ScheduleEntryDropsUnplaced ==
  /\ pc = "schedule"
  /\ si < Len(timetable)
  /\ \E r \in {PlaceEntry(occupiedSlots, timetable[si + 1])} :
        /\ occupiedSlots' = r.occ
        /\ timetable' = IF r.entry.timeSlot = UnsetSlot
                        THEN SubSeq(timetable, 1, si)
                               \o SubSeq(timetable, si + 2, Len(timetable))
                        ELSE [timetable EXCEPT ![si + 1] = r.entry]
        /\ si' = IF r.entry.timeSlot = UnsetSlot THEN si ELSE si + 1
  /\ UNCHANGED <<instance, page, storage, programs, courses, faculty, rooms, selectedPrograms,
                 pc, sortedCourses, ci, result, clock, calls>>

\* One iteration of `for (const entry of entries)` in scheduleEntries: the
\* scan of the grid, the assignment if a cell is found, scheduled.push(entry).
ScheduleEntry ==
  /\ pc = "schedule"
  /\ si < Len(timetable)
  /\ \E r \in {PlaceEntry(occupiedSlots, timetable[si + 1])} :
        /\ occupiedSlots' = r.occ
        /\ timetable' = [timetable EXCEPT ![si + 1] = r.entry]
  /\ si' = si + 1
  /\ UNCHANGED <<instance, page, storage, programs, courses, faculty, rooms, selectedPrograms,
                 pc, sortedCourses, ci, result, clock, calls>>

\* scheduleEntries returns; detectConflicts runs; generateTimetable returns.
FinishGeneration ==
  /\ pc = "schedule"
  /\ si = Len(timetable)
  /\ LET detectedConflicts == DetectConflicts(timetable)
     IN  result' = [ timetable |-> timetable,
                     conflicts |-> detectedConflicts,
                     success   |-> SuccessOf(detectedConflicts),
                     message   |-> MessageOf(detectedConflicts) ]
  /\ pc' = "done"
  /\ calls' = calls + 1
  /\ UNCHANGED <<instance, page, storage, programs, courses, faculty, rooms, selectedPrograms,
                 sortedCourses, ci, timetable, si, occupiedSlots, clock>>

\* The selections a caller may pass: any set of program ids, among them ids
\* of programs that are no longer stored.
Selections == SUBSET ProgramRefs

Next ==
  \/ \E selected \in Selections : ReturnEmptyCatalog(selected)
  \/ \E selected \in Selections : ReturnNoCourses(selected)
  \/ \E selected \in Selections : BeginExpansion(selected)
  \/ ExpandCourse
  \/ ScheduleEntry
  \/ FinishGeneration

Spec == Init /\ [][Next]_vars

\* ------------------------------------------------- vocabulary of the claims

\* The grid in scan order: cell k is day (k-1) \div 8 and label (k-1) % 8.
NumCells == Len(WEEKDAYS) * Len(TIME_SLOTS)
CellDay(k) == WEEKDAYS[((k - 1) \div Len(TIME_SLOTS)) + 1]
CellTime(k) == TIME_SLOTS[((k - 1) % Len(TIME_SLOTS)) + 1]

AtCell(e, k) == e.timeSlot.day = CellDay(k) /\ e.timeSlot.time = CellTime(k)
OnGrid(e) == \E k \in 1..NumCells : AtCell(e, k)
CellIndex(e) == CHOOSE k \in 1..NumCells : AtCell(e, k)

Unset(e) == e.timeSlot.day = "" /\ e.timeSlot.time = ""

FacultyOf(e) == CHOOSE f \in Range(faculty) : f.id = e.facultyId
RoomOf(e) == CHOOSE r \in Range(rooms) : r.id = e.roomId

\* The cells that entries before j hold with j's faculty or with j's room.
BlockedCells(tt, j) ==
  { <<tt[i].timeSlot.day, tt[i].timeSlot.time>> :
      i \in { h \in 1..(j - 1) :
                /\ HasSlot(tt[h])
                /\ (tt[h].facultyId = tt[j].facultyId \/ tt[h].roomId = tt[j].roomId) } }

\* The labels at which the faculty or the room of e is unavailable.
ClosedLabels(e) == FacultyOf(e).unavailableSlots \cup RoomOf(e).unavailableSlots

\* Cell k was free for an entry when it was processed: no earlier entry held
\* k with its faculty or its room (blocked), and neither its faculty nor its
\* room is unavailable at the label of k (closed).
Feasible(blocked, closed, k) ==
  <<CellDay(k), CellTime(k)>> \notin blocked /\ CellTime(k) \notin closed

\* The tags of the processed sessions that sit at the cell with this key.
TagsOfSessionsAt(key) ==
  UNION { {FacultyTag(timetable[j].facultyId), RoomTag(timetable[j].roomId)}
          : j \in {i \in 1..si : /\ HasSlot(timetable[i])
                                  /\ SlotKey(timetable[i].timeSlot.day,
                                             timetable[i].timeSlot.time) = key} }

CountWhere(s, Test(_)) == Cardinality({i \in DOMAIN s : Test(s[i])})

CatalogsNonEmpty ==
  Len(programs) > 0 /\ Len(courses) > 0 /\ Len(faculty) > 0 /\ Len(rooms) > 0

SomeCourseSelected == \E i \in DOMAIN courses : courses[i].program \in selectedPrograms

\* The call returned from the end of generateTimetable, not from one of the
\* two early returns.
FullRun == pc = "done" /\ CatalogsNonEmpty /\ SomeCourseSelected

IsUnscheduledConflict(c) ==
  Len(c.description) = 5 /\ c.description[5] = ") could not be scheduled"

\* ------------------------------------------------------------------ claims

\* C1: at every point of scheduleEntries, and in the returned timetable, no
\* two sessions with a slot share a (day, time) cell and a faculty id, and
\* no two share a cell and a room id.
C1_NoDoubleBooking ==
  /\ \A i, j \in DOMAIN timetable :
       ( /\ i < j
         /\ HasSlot(timetable[i]) /\ HasSlot(timetable[j])
         /\ timetable[i].timeSlot.day = timetable[j].timeSlot.day
         /\ timetable[i].timeSlot.time = timetable[j].timeSlot.time )
       => /\ timetable[i].facultyId # timetable[j].facultyId
          /\ timetable[i].roomId # timetable[j].roomId
  /\ FullRun => result.timetable = timetable

\* Two sessions of one faculty in one room, and a third of another faculty
\* in the same room, all placed.
C1_Witness ==
  /\ FullRun
  /\ \E i, j, k \in DOMAIN timetable :
       /\ i < j /\ j < k
       /\ HasSlot(timetable[i]) /\ HasSlot(timetable[j]) /\ HasSlot(timetable[k])
       /\ timetable[i].facultyId = timetable[j].facultyId
       /\ timetable[i].roomId = timetable[j].roomId
       /\ timetable[k].roomId = timetable[j].roomId
       /\ timetable[k].facultyId # timetable[j].facultyId

\* C2: first-fit.  Every processed session with a slot sits on a grid cell,
\* and no cell before it in scan order was feasible for it when it was
\* processed.
C2_FirstFit ==
  \A j \in 1..si :
    HasSlot(timetable[j]) =>
      LET blocked == BlockedCells(timetable, j)
          closed == ClosedLabels(timetable[j])
          c == CellIndex(timetable[j])
      IN  /\ OnGrid(timetable[j])
          /\ timetable[j].timeSlot.duration = 1
          /\ Feasible(blocked, closed, c)
          /\ \A k \in 1..(c - 1) : ~Feasible(blocked, closed, k)

\* A session placed after the first day, having passed over cells that were
\* occupied and cells whose label is unavailable.
C2_Witness ==
  \E j \in 1..si :
    /\ HasSlot(timetable[j])
    /\ CellIndex(timetable[j]) > Len(TIME_SLOTS)
    /\ \E k \in 1..(CellIndex(timetable[j]) - 1) :
         CellTime(k) \notin FacultyOf(timetable[j]).unavailableSlots
           \cup RoomOf(timetable[j]).unavailableSlots
    /\ FacultyOf(timetable[j]).unavailableSlots # {}

\* C3: a processed session has an unset slot exactly if no cell of the grid
\* was feasible for it when it was processed; the tags recorded per cell are
\* those of the sessions placed there, so an unscheduled session adds none;
\* and when scheduleEntries has returned every session has been processed.
C3_UnsetIffNoFeasibleCell ==
  /\ \A j \in 1..si :
       LET blocked == BlockedCells(timetable, j)
           closed == ClosedLabels(timetable[j])
       IN  /\ HasSlot(timetable[j]) \/ Unset(timetable[j])
           /\ Unset(timetable[j]) <=> \A k \in 1..NumCells : ~Feasible(blocked, closed, k)
  /\ \A key \in DOMAIN occupiedSlots : occupiedSlots[key] = TagsOfSessionsAt(key)
  /\ \A j \in 1..si :
       HasSlot(timetable[j]) =>
         SlotKey(timetable[j].timeSlot.day, timetable[j].timeSlot.time) \in DOMAIN occupiedSlots
  /\ \A j \in (si + 1)..Len(timetable) : timetable[j].timeSlot = UnsetSlot
  /\ FullRun => si = Len(timetable) /\ Len(result.timetable) = Len(timetable)

\* The run has returned with a session left unscheduled and a later session
\* placed.
C3_Witness ==
  /\ FullRun
  /\ \E i, j \in DOMAIN result.timetable :
       i < j /\ Unset(result.timetable[i]) /\ HasSlot(result.timetable[j])

\* C4: the label of a scheduled session's slot is in neither its faculty's
\* nor its room's unavailableSlots, whatever the day.
C4_RespectsUnavailability ==
  \A j \in DOMAIN timetable :
    HasSlot(timetable[j]) =>
      /\ timetable[j].timeSlot.time \notin FacultyOf(timetable[j]).unavailableSlots
      /\ timetable[j].timeSlot.time \notin RoomOf(timetable[j]).unavailableSlots

\* A session placed on a day after Monday whose room is closed at some label
\* and whose faculty is unavailable at some label.
C4_Witness ==
  \E j \in DOMAIN timetable :
    /\ HasSlot(timetable[j])
    /\ timetable[j].timeSlot.day # WEEKDAYS[1]
    /\ FacultyOf(timetable[j]).unavailableSlots # {}
    /\ RoomOf(timetable[j]).unavailableSlots # {}

\* C5: detectConflicts on what scheduleEntries has produced reports no
\* faculty or room collision; every conflict of a returned result is the
\* could-not-be-scheduled entry of a session of the timetable without slot.
C5_AssignThenDetect ==
  /\ \A c \in Range(DetectConflicts(timetable)) : IsUnscheduledConflict(c)
  /\ pc = "done" =>
       \A c \in Range(result.conflicts) :
         /\ IsUnscheduledConflict(c)
         /\ \E j \in DOMAIN result.timetable :
              /\ ~HasSlot(result.timetable[j])
              /\ c.description[2] = result.timetable[j].courseCode
              /\ c.description[4] = result.timetable[j].courseName

\* A returned result with a conflict and with two placed sessions that share
\* a room.
C5_Witness ==
  /\ FullRun
  /\ Len(result.conflicts) > 0
  /\ \E i, j \in DOMAIN result.timetable :
       /\ i < j
       /\ HasSlot(result.timetable[i]) /\ HasSlot(result.timetable[j])
       /\ result.timetable[i].roomId = result.timetable[j].roomId

NoHigh(conflicts) == \A c \in Range(conflicts) : c.severity # "high"

InCatalog(course) == \E p \in Range(programs) : p.id = course.program

SessionsOf(tt, course, type) ==
  CountWhere(tt, LAMBDA e : e.courseId = course.id /\ e.type = type)

\* C6 as stated: in every returned result, success is true exactly if the
\* conflict list has no conflict of severity high.
C6_SuccessIffNoHigh ==
  pc = "done" => (result.success <=> NoHigh(result.conflicts))

\* C6 amended: success is true exactly if the result comes from the final
\* return and its conflict list has no conflict of severity high; the two
\* early returns have success false with an empty conflict list.
C6_SuccessIffNoHighInFullRun ==
  pc = "done" =>
    /\ result.success <=> (FullRun /\ NoHigh(result.conflicts))
    /\ ~FullRun => result.conflicts = <<>> /\ ~result.success

\* A final return with a high conflict and success false.
C6_Witness ==
  /\ FullRun
  /\ ~result.success
  /\ \E c \in Range(result.conflicts) : c.severity = "high"
  /\ \E j \in DOMAIN result.timetable : HasSlot(result.timetable[j])

\* C7 as stated: on non-empty catalogs, every course of a selected program
\* has exactly theoryHours theory sessions and practicalHours practical
\* sessions in the returned list.
C7_HoursExpanded ==
  (pc = "done" /\ CatalogsNonEmpty) =>
    \A i \in DOMAIN courses :
      courses[i].program \in selectedPrograms =>
        /\ SessionsOf(result.timetable, courses[i], "theory") = courses[i].theoryHours
        /\ SessionsOf(result.timetable, courses[i], "practical") = courses[i].practicalHours

\* C7 amended: the same for every course of a selected program that is in
\* the program catalog; a course whose program is not in the catalog has no
\* session.
C7_HoursExpandedInCatalog ==
  (pc = "done" /\ CatalogsNonEmpty) =>
    \A i \in DOMAIN courses :
      courses[i].program \in selectedPrograms =>
        IF InCatalog(courses[i])
          THEN /\ SessionsOf(result.timetable, courses[i], "theory") = courses[i].theoryHours
               /\ SessionsOf(result.timetable, courses[i], "practical") = courses[i].practicalHours
          ELSE /\ SessionsOf(result.timetable, courses[i], "theory") = 0
               /\ SessionsOf(result.timetable, courses[i], "practical") = 0

\* A final return with a course of two or more theory hours and one or more
\* practical hours, and a second selected course.
C7_Witness ==
  /\ FullRun
  /\ \E i, j \in DOMAIN courses :
       /\ i # j
       /\ courses[i].program \in selectedPrograms /\ InCatalog(courses[i])
       /\ courses[j].program \in selectedPrograms /\ InCatalog(courses[j])
       /\ courses[i].theoryHours >= 2 /\ courses[i].practicalHours >= 1
       /\ courses[j].theoryHours = 1

\* C8: if any of the four collections is empty at the call, the result is
\* the empty-catalog result whatever the selection, and no session exists.
C8_EmptyCatalogResult ==
  ( /\ pc = "done"
    /\ (Len(programs) = 0 \/ Len(courses) = 0 \/ Len(faculty) = 0 \/ Len(rooms) = 0) )
  => /\ result.timetable = <<>>
     /\ result.conflicts = <<>>
     /\ result.success = FALSE
     /\ result.message = MsgEmptyCatalog
     /\ timetable = <<>>

\* The call returned with only the rooms missing and a course with hours in
\* a selected program of the catalog.
C8_Witness ==
  /\ pc = "done"
  /\ Len(rooms) = 0 /\ Len(programs) > 0 /\ Len(faculty) > 0
  /\ \E i \in DOMAIN courses :
       /\ courses[i].program \in selectedPrograms
       /\ InCatalog(courses[i])
       /\ courses[i].theoryHours > 0

\* C9: if the four collections are non-empty and no course is in a selected
\* program, the result is the no-courses result and no session exists.
C9_NoCoursesResult ==
  (pc = "done" /\ CatalogsNonEmpty /\ ~SomeCourseSelected)
  => /\ result.timetable = <<>>
     /\ result.conflicts = <<>>
     /\ result.success = FALSE
     /\ result.message = MsgNoCourses
     /\ timetable = <<>>

\* The call returned with a non-empty selection that matches no course.
C9_Witness ==
  /\ pc = "done"
  /\ CatalogsNonEmpty
  /\ ~SomeCourseSelected
  /\ selectedPrograms # {}

CitesCourse(c, e) ==
  /\ IsUnscheduledConflict(c)
  /\ c.description[2] = e.courseCode
  /\ c.description[4] = e.courseName

SlotMissing(e) == e.timeSlot.day = "" \/ e.timeSlot.time = ""

\* C10: detectConflicts gives one conflict of severity high per session whose
\* day or time is empty: as many could-not-be-scheduled entries as such
\* sessions, in all and for each course cited; the returned conflict list is
\* the one detectConflicts gives for the returned timetable.
C10_OnePerUnscheduled ==
  LET conflicts == DetectConflicts(timetable)
  IN  /\ CountWhere(conflicts, IsUnscheduledConflict) = CountWhere(timetable, SlotMissing)
      /\ \A j \in DOMAIN timetable :
           CountWhere(conflicts, LAMBDA c : CitesCourse(c, timetable[j]))
             = CountWhere(timetable, LAMBDA e : /\ SlotMissing(e)
                                                /\ e.courseCode = timetable[j].courseCode
                                                /\ e.courseName = timetable[j].courseName)
      /\ \A c \in Range(conflicts) : IsUnscheduledConflict(c) => c.severity = "high"
      /\ FullRun => result.conflicts = conflicts /\ result.timetable = timetable

\* A final return with two unscheduled sessions of one course and a placed
\* session.
C10_Witness ==
  /\ FullRun
  /\ \E i, j, k \in DOMAIN result.timetable :
       /\ i < j
       /\ SlotMissing(result.timetable[i]) /\ SlotMissing(result.timetable[j])
       /\ result.timetable[i].courseId = result.timetable[j].courseId
       /\ HasSlot(result.timetable[k])

\* ------------------------------------ detectConflicts on any session list

\* Largest number of sessions in a list handed to detectConflicts directly.
MaxSessions == 3

\* The slots of the listed sessions: unset, a day without a time, and the
\* first two cells of the grid.
ListedSlots ==
  { UnsetSlot,
    [day |-> WEEKDAYS[1], time |-> "", duration |-> 1],
    [day |-> WEEKDAYS[1], time |-> TIME_SLOTS[1], duration |-> 1],
    [day |-> WEEKDAYS[1], time |-> TIME_SLOTS[2], duration |-> 1] }

ListedIds == {1, 2}

\* A TimetableEntry with a slot that scheduleEntries need not have produced.
ListedSession(f, r, slot) ==
  [ NewEntry(CourseRec(1, 1, FALSE, 1, 1, 0, TextA), ProgramRec(1), "theory", 0,
             FacultyRec(f, {1}, <<>>, {}), RoomRec(r, "Classroom", {}))
      EXCEPT !.timeSlot = slot ]

ListedSessions ==
  { ListedSession(f, r, slot) : f \in ListedIds, r \in ListedIds, slot \in ListedSlots }

SessionLists ==
  UNION { [1..n -> ListedSessions] : n \in 0..MaxSessions }

\* The state in which generateTimetable calls detectConflicts, with any
\* session list in the place of the one scheduleEntries returned.
InitDetect ==
  /\ clock = 0
  /\ storage \in { c \in SparseCatalogs : c.programs = <<>> /\ c.courses = <<>>
                                          /\ c.faculty = <<>> /\ c.rooms = <<>> }
  /\ programs = storage.programs
  /\ courses = storage.courses
  /\ faculty = storage.faculty
  /\ rooms = storage.rooms
  /\ selectedPrograms = {}
  /\ pc = "schedule"
  /\ sortedCourses = <<>>
  /\ ci = 0
  /\ timetable \in SessionLists
  /\ si = Len(timetable)
  /\ occupiedSlots = EmptyMap
  /\ result = NoResult
  /\ calls = 0
  /\ instance = 1
  /\ page = MountedPage(storage)

NextDetect == FinishGeneration

SpecDetect == InitDetect /\ [][NextDetect]_vars

\* The sessions of list tt that sit in the cell of key `key` and use
\* faculty id f (room id r).
FacultyUses(tt, key, f) ==
  { j \in DOMAIN tt : /\ tt[j].timeSlot.day # "" /\ tt[j].timeSlot.time # ""
                       /\ <<tt[j].timeSlot.day, tt[j].timeSlot.time>> = key
                       /\ tt[j].facultyId = f }

RoomUses(tt, key, r) ==
  { j \in DOMAIN tt : /\ tt[j].timeSlot.day # "" /\ tt[j].timeSlot.time # ""
                       /\ <<tt[j].timeSlot.day, tt[j].timeSlot.time>> = key
                       /\ tt[j].roomId = r }

\* The collision conflicts of list cs that cite that cell and that id.
FacultyCollisions(cs, key, f) ==
  { n \in DOMAIN cs : /\ cs[n].type = "faculty_conflict"
                       /\ cs[n].severity = "high"
                       /\ cs[n].description =
                            <<"Faculty ", <<"Faculty ", f>>, " has multiple classes at ", key>> }

RoomCollisions(cs, key, r) ==
  { n \in DOMAIN cs : /\ cs[n].type = "room_conflict"
                       /\ cs[n].severity = "high"
                       /\ cs[n].description =
                            <<"Room ", <<"Room ", r>>, " has multiple classes at ", key>> }

ListedKeys == { <<slot.day, slot.time>> : slot \in { x \in ListedSlots : x.day # "" /\ x.time # "" } }

OneLess(k) == IF k >= 1 THEN k - 1 ELSE 0

\* C11: for any session list, double-booked or not, detectConflicts emits
\* for every cell and every faculty id used there by k >= 1 sessions
\* exactly k - 1 faculty conflicts, and likewise for every room id; a cell
\* whose sessions have pairwise distinct faculty ids and pairwise distinct
\* room ids therefore gets none, and every collision conflict emitted is
\* one of those counted.
C11_CollisionCounts ==
  pc = "done" =>
    LET tt == result.timetable
        cs == result.conflicts
        counted == UNION { FacultyCollisions(cs, key, id) \cup RoomCollisions(cs, key, id) :
                           key \in ListedKeys, id \in ListedIds }
    IN  /\ \A key \in ListedKeys : \A id \in ListedIds :
              /\ Cardinality(FacultyCollisions(cs, key, id))
                   = OneLess(Cardinality(FacultyUses(tt, key, id)))
              /\ Cardinality(RoomCollisions(cs, key, id))
                   = OneLess(Cardinality(RoomUses(tt, key, id)))
        /\ \A n \in DOMAIN cs :
              n \in counted \/ cs[n].description[1] = "Course "

\* Three sessions of one cell on one faculty and on two rooms: two faculty
\* conflicts and one room conflict.
C11_Witness ==
  /\ pc = "done"
  /\ \E key \in ListedKeys : \E f \in ListedIds :
        /\ Cardinality(FacultyUses(result.timetable, key, f)) = 3
        /\ Cardinality(FacultyCollisions(result.conflicts, key, f)) = 2
        /\ \E r \in ListedIds :
              /\ Cardinality(RoomUses(result.timetable, key, r)) = 2
              /\ Cardinality(RoomCollisions(result.conflicts, key, r)) = 1
        /\ Len(result.conflicts) = 3

\* ------------------------------ catalogs that give the engine a choice

\* Largest number of records among which the engine chooses: the courses it
\* orders, the faculty and the rooms it picks from.
MaxChoice == 3

CourseListsUpTo(minLen, maxLen, fields) ==
  UNION { { [i \in 1..n |->
              CourseRec(i, c[i].program, c[i].isElective, c[i].semester,
                        c[i].theoryHours, c[i].practicalHours, c[i].text)]
            : c \in [1..n -> fields] }
          : n \in minLen..maxLen }

\* Ordering catalogs: one program, one faculty member, one room; up to
\* MaxChoice one-session courses, each required or elective, of semester 1
\* or 2, in any catalog order.
OrderingCourseFields ==
  [ program : {1}, isElective : BOOLEAN, semester : {1, 2},
    theoryHours : {1}, practicalHours : {0}, text : {TextA} ]

OrderingCatalogs ==
  { [ programs |-> <<ProgramRec(1)>>,
      courses  |-> cs,
      faculty  |-> <<FacultyRec(1, {1}, <<>>, {})>>,
      rooms    |-> <<RoomRec(1, "Classroom", {})>> ]
    : cs \in CourseListsUpTo(0, MaxChoice, OrderingCourseFields) }

\* Faculty lists and room lists: positions are ids.
FacultyLists(fields) ==
  UNION { { [i \in 1..n |->
              FacultyRec(i, c[i].canTeachPrograms, c[i].expertise, c[i].unavailableSlots)]
            : c \in [1..n -> fields] }
          : n \in 1..MaxChoice }

RoomLists(fields) ==
  UNION { { [i \in 1..n |-> RoomRec(i, c[i].type, c[i].unavailableSlots)]
            : c \in [1..n -> fields] }
          : n \in 1..MaxChoice }

\* Faculty-choice catalogs: two programs and one course of the first, with a
\* theory and a practical session; up to MaxChoice faculty members, each
\* teaching the first program or only the second, each with no keyword, one
\* keyword or two.  KeywordA matches TextA only and KeywordB matches TextB
\* only, both only when case is ignored.
FacultyChoiceFields ==
  [ canTeachPrograms : {{1}, {2}},
    expertise : {<<>>, <<KeywordA>>, <<KeywordB, KeywordA>>},
    unavailableSlots : {{}} ]

FacultyChoiceCatalogs ==
  { [ programs |-> <<ProgramRec(1), ProgramRec(2)>>,
      courses  |-> <<CourseRec(1, 1, FALSE, 1, 1, 1, text)>>,
      faculty  |-> fs,
      rooms    |-> <<RoomRec(1, "Classroom", {})>> ]
    : text \in {TextA, TextB}, fs \in FacultyLists(FacultyChoiceFields) }

\* Room-choice catalogs: the same course and one faculty member; up to
\* MaxChoice rooms of any of the six room types of the room form.
RoomTypes ==
  {"Classroom", "Laboratory", "Seminar Hall", "Auditorium", "Library", "Computer Lab"}

RoomChoiceFields == [ type : RoomTypes, unavailableSlots : {{}} ]

RoomChoiceCatalogs ==
  { [ programs |-> <<ProgramRec(1)>>,
      courses  |-> <<CourseRec(1, 1, FALSE, 1, 1, 1, TextA)>>,
      faculty  |-> <<FacultyRec(1, {1}, <<>>, {})>>,
      rooms    |-> rs ]
    : rs \in RoomLists(RoomChoiceFields) }

ChoiceCatalogs == OrderingCatalogs \cup FacultyChoiceCatalogs \cup RoomChoiceCatalogs

InitChoice == InitWith(ChoiceCatalogs)

SpecChoice == InitChoice /\ [][Next]_vars

\* The stored course a session was made from.
CourseOf(e) == CHOOSE c \in Range(storage.courses) : c.id = e.courseId

\* Required sessions come before elective ones, and within each group the
\* semesters do not decrease.
InSortOrder(tt) ==
  \A i \in DOMAIN tt : \A j \in DOMAIN tt :
    i < j =>
      LET a == CourseOf(tt[i])
          b == CourseOf(tt[j])
      IN  /\ ~(a.isElective /\ ~b.isElective)
          /\ (a.isElective = b.isElective => a.semester <= b.semester)

\* C12: in the session list, while it is built, while slots are assigned and
\* once it is returned, every session of a required course precedes every
\* session of an elective course and within each group the semesters are
\* non-decreasing; sessions take their turn in list order, so when an
\* elective session has had its turn every required session has had its.
C12_RequiredFirst ==
  /\ InSortOrder(timetable)
  /\ (pc = "done" /\ CatalogsNonEmpty /\ SomeCourseSelected) => result.timetable = timetable
  /\ \A j \in DOMAIN timetable :
        /\ j > si => timetable[j].timeSlot = UnsetSlot
        /\ (CourseOf(timetable[j]).isElective /\ j <= si) =>
              \A i \in DOMAIN timetable :
                ~CourseOf(timetable[i]).isElective => i <= si

\* A catalog that lists an elective course first, then a required course of
\* semester 2, then a required course of semester 1: the returned list has
\* them in the opposite order, and the cells follow it.
C12_Witness ==
  /\ pc = "done"
  /\ Len(storage.courses) = 3
  /\ storage.courses[1].isElective
  /\ ~storage.courses[2].isElective /\ storage.courses[2].semester = 2
  /\ ~storage.courses[3].isElective /\ storage.courses[3].semester = 1
  /\ Len(result.timetable) = 3
  /\ result.timetable[1].courseId = 3
  /\ result.timetable[2].courseId = 2
  /\ result.timetable[3].courseId = 1
  /\ \A k \in 1..3 : result.timetable[k].timeSlot.time = TIME_SLOTS[k]

\* The first position of a list that has a property, given as the set of
\* positions that have it; 0 if the set is empty.
FirstOf(positions) ==
  IF positions = {} THEN 0
  ELSE CHOOSE m \in positions : \A n \in positions : m <= n

\* Keyword kw occurs in text s when case is ignored.
OccursIgnoringCase(kw, s) ==
  \E i \in 1..(Len(s) - Len(kw) + 1) :
    \A k \in 1..Len(kw) : LowerChar(s[i + k - 1]) = LowerChar(kw[k])

\* The positions of the stored faculty who can teach the program of session
\* e, and of those among them with a keyword that occurs in the name or in
\* the description of its course.
CanTeach(e) ==
  { m \in DOMAIN storage.faculty : e.programId \in storage.faculty[m].canTeachPrograms }

Experts(e) ==
  { m \in CanTeach(e) :
      \E k \in DOMAIN storage.faculty[m].expertise :
        \/ OccursIgnoringCase(storage.faculty[m].expertise[k], CourseOf(e).name)
        \/ OccursIgnoringCase(storage.faculty[m].expertise[k], CourseOf(e).description) }

CascadeFaculty(e) ==
  IF Experts(e) # {} THEN storage.faculty[FirstOf(Experts(e))]
  ELSE IF CanTeach(e) # {} THEN storage.faculty[FirstOf(CanTeach(e))]
  ELSE storage.faculty[1]

\* C13: every session carries the faculty member chosen by the cascade: the
\* first in catalog order who can teach the program of the course and has an
\* expertise keyword that occurs, case ignored, in the course name or
\* description; failing that the first who can teach the program; failing
\* that the first of the catalog.
C13_FacultyCascade ==
  \A j \in DOMAIN timetable :
    /\ timetable[j].programId = CourseOf(timetable[j]).program
    /\ timetable[j].facultyId = CascadeFaculty(timetable[j]).id
    /\ timetable[j].facultyName = CascadeFaculty(timetable[j]).name

\* The three steps of the cascade, each with a choice that is not the first
\* faculty member of the catalog: the third matches by its second keyword
\* and only when case is ignored after two who do not; the second can teach
\* the program after one who cannot; nobody can teach the program.
C13_Witness ==
  /\ pc = "done" /\ Len(result.timetable) = 2
  /\ Len(storage.faculty) = 3
  /\ CanTeach(result.timetable[1]) = {1, 3}
  /\ Experts(result.timetable[1]) = {3}
  /\ storage.faculty[3].expertise = <<KeywordB, KeywordA>>
  /\ result.timetable[1].facultyId = 3

C13_WitnessCanTeach ==
  /\ pc = "done" /\ Len(result.timetable) = 2
  /\ CanTeach(result.timetable[1]) = {2, 3}
  /\ Experts(result.timetable[1]) = {}
  /\ storage.faculty[2].expertise # <<>>
  /\ result.timetable[1].facultyId = 2

C13_WitnessNobody ==
  /\ pc = "done" /\ Len(result.timetable) = 2
  /\ Len(storage.faculty) = 2
  /\ CanTeach(result.timetable[1]) = {}
  /\ result.timetable[1].facultyId = 1

\* The positions of the stored rooms of the kind that suits session e.
KindRooms(e) ==
  { m \in DOMAIN storage.rooms :
      storage.rooms[m].type \in
        (IF e.type = "practical" THEN {"Laboratory", "Computer Lab"}
                                 ELSE {"Classroom", "Seminar Hall"}) }

CascadeRoom(e) ==
  IF KindRooms(e) # {} THEN storage.rooms[FirstOf(KindRooms(e))]
  ELSE storage.rooms[1]

\* C14: every session carries the first room in catalog order of the kind
\* that suits it (theory: Classroom or Seminar Hall; practical: Laboratory
\* or Computer Lab) if the catalog has one, and the first room of the
\* catalog otherwise.
C14_RoomCascade ==
  \A j \in DOMAIN timetable :
    /\ timetable[j].type \in {"theory", "practical"}
    /\ timetable[j].roomId = CascadeRoom(timetable[j]).id
    /\ timetable[j].roomName = CascadeRoom(timetable[j]).name

\* An auditorium first, then a computer lab, then a seminar hall: theory
\* goes to the third room and practical to the second.
C14_Witness ==
  /\ pc = "done" /\ Len(result.timetable) = 2
  /\ Len(storage.rooms) = 3
  /\ storage.rooms[1].type = "Auditorium"
  /\ storage.rooms[2].type = "Computer Lab"
  /\ storage.rooms[3].type = "Seminar Hall"
  /\ result.timetable[1].type = "theory" /\ result.timetable[1].roomId = 3
  /\ result.timetable[2].type = "practical" /\ result.timetable[2].roomId = 2

\* Only laboratories: the theory session falls back to the first room.
C14_WitnessFallback ==
  /\ pc = "done" /\ Len(result.timetable) = 2
  /\ Len(storage.rooms) = 2
  /\ storage.rooms[1].type = "Laboratory"
  /\ storage.rooms[2].type = "Laboratory"
  /\ result.timetable[1].type = "theory" /\ result.timetable[1].roomId = 1

\* ------------------------------------------------------- repeated calls

\* Largest number of calls of generateTimetable on one generator.
MaxCalls == 2

\* Largest reading of the clock.
MaxClock == 1

\* The page calls generator.generateTimetable again: the fields of the
\* generator are as the call before left them.
CallAgain ==
  /\ pc = "done"
  /\ calls < MaxCalls
  /\ pc' = "idle"
  /\ UNCHANGED <<instance, page, storage, programs, courses, faculty, rooms, selectedPrograms,
                 sortedCourses, ci, timetable, si, occupiedSlots, result, clock, calls>>

\* Time passes between two calls or before the first one.
Tick ==
  /\ pc = "idle"
  /\ clock < MaxClock
  /\ clock' = clock + 1
  /\ UNCHANGED <<instance, page, storage, programs, courses, faculty, rooms, selectedPrograms, pc,
                 sortedCourses, ci, timetable, si, occupiedSlots, result, calls>>

\* The selection of a repeated call is the selection of the call before.
RepeatSelections == IF calls = 0 THEN Selections ELSE {selectedPrograms}

\* Catalogs of the repeated calls: the scheduling catalogs short of the
\* longest course lists, and sparse catalogs without rooms.
RepeatCatalogs ==
  { c \in SchedulingCatalogs : Len(c.courses) < MaxCourses }
    \cup { c \in SparseCatalogs : Len(c.courses) < MaxCourses /\ c.rooms = <<>> }

InitRepeat == InitWith(RepeatCatalogs)

NextRepeat ==
  \/ \E selected \in RepeatSelections : ReturnEmptyCatalog(selected)
  \/ \E selected \in RepeatSelections : ReturnNoCourses(selected)
  \/ \E selected \in RepeatSelections : BeginExpansion(selected)
  \/ ExpandCourse
  \/ ScheduleEntry
  \/ FinishGeneration
  \/ CallAgain
  \/ Tick

SpecRepeat == InitRepeat /\ [][NextRepeat]_vars

\* Two results agree on everything but the session ids.
SameButIds(a, b) ==
  /\ Len(a.timetable) = Len(b.timetable)
  /\ \A i \in DOMAIN a.timetable :
        /\ a.timetable[i].courseId = b.timetable[i].courseId
        /\ a.timetable[i].type = b.timetable[i].type
        /\ a.timetable[i].facultyId = b.timetable[i].facultyId
        /\ a.timetable[i].roomId = b.timetable[i].roomId
        /\ a.timetable[i].programId = b.timetable[i].programId
        /\ a.timetable[i].timeSlot = b.timetable[i].timeSlot
  /\ a.conflicts = b.conflicts
  /\ a.success = b.success
  /\ a.message = b.message

\* C15: a call of generateTimetable with the selection of the call before,
\* on the unchanged catalog, returns a result that agrees with the result of
\* the call before: session lists of the same length that agree position
\* by position on course, kind, faculty, room, program and slot, and equal
\* conflicts, success and message; the session ids may differ.
C15_Determinism ==
  [][ (calls >= 1 /\ calls' = calls + 1) => SameButIds(result, result') ]_vars

\* A second call has returned, after a tick of the clock, a list with a
\* placed and an unplaced session: its ids carry the later stamp.
C15_Witness ==
  /\ pc = "done"
  /\ calls = 2
  /\ clock > 0
  /\ Len(result.timetable) > 1
  /\ \A j \in DOMAIN result.timetable : result.timetable[j].id[4] = clock
  /\ \E j \in DOMAIN result.timetable : result.timetable[j].timeSlot # UnsetSlot
  /\ \E j \in DOMAIN result.timetable : result.timetable[j].timeSlot = UnsetSlot
  /\ Len(result.conflicts) > 0

\* ------------------------------------------------- the grid filled up

\* Capacity catalogs: one program, one faculty member and one classroom,
\* which takes the practical sessions too; either both are free at every
\* label, or the faculty member is never free at the first label and the
\* room is closed at the last.  The hours of the courses reach and pass the
\* number of cells of the grid: 48 sessions come from two courses (47 and
\* 1), 49 from one (47 and 2).
CapacityCourseFields ==
  [ program : {1}, isElective : {FALSE}, semester : {1},
    theoryHours : {1, NumCells - 1}, practicalHours : {0, 2},
    text : {TextA} ]

CapacityCatalogs ==
  { [ programs |-> <<ProgramRec(1)>>,
      courses  |-> cs,
      faculty  |-> <<FacultyRec(1, {1}, <<>>, u.faculty)>>,
      rooms    |-> <<RoomRec(1, "Classroom", u.room)>> ]
    : cs \in CourseLists(0, CapacityCourseFields),
      u \in { [faculty |-> {}, room |-> {}],
              [faculty |-> {FirstLabel}, room |-> {LastLabel}] } }

InitCapacity == InitWith(CapacityCatalogs)

\* The program of the catalog is selected or nothing is.
CapacitySelections == {{}, {1}}

NextCapacity ==
  \/ \E selected \in CapacitySelections : ReturnEmptyCatalog(selected)
  \/ \E selected \in CapacitySelections : ReturnNoCourses(selected)
  \/ \E selected \in CapacitySelections : BeginExpansion(selected)
  \/ ExpandCourse
  \/ ScheduleEntry
  \/ FinishGeneration

SpecCapacity == InitCapacity /\ [][NextCapacity]_vars

\* All sessions of the list are on one faculty member and in one room, and
\* nobody in the catalog has an unavailable label.
SharedResources(tt) ==
  \A j \in DOMAIN tt :
    tt[j].facultyId = tt[1].facultyId /\ tt[j].roomId = tt[1].roomId

NoUnavailability ==
  /\ \A m \in DOMAIN storage.faculty : storage.faculty[m].unavailableSlots = {}
  /\ \A m \in DOMAIN storage.rooms : storage.rooms[m].unavailableSlots = {}

Scheduling == pc = "schedule" \/ (pc = "done" /\ CatalogsNonEmpty /\ SomeCourseSelected)

\* C16: when the n <= 48 sessions of a run are all on one faculty member and
\* in one room and there is no unavailability, the k-th session of the list
\* gets the k-th cell of the scan order; the conflict list is empty and
\* success is true, whether the sessions come from one course or several.
C16_FillInOrder ==
  (Scheduling /\ NoUnavailability /\ SharedResources(timetable)
     /\ Len(timetable) <= NumCells) =>
    /\ \A k \in 1..si : AtCell(timetable[k], k) /\ timetable[k].timeSlot.duration = 1
    /\ pc = "done" =>
          /\ result.timetable = timetable
          /\ result.conflicts = <<>>
          /\ result.success = TRUE

\* 48 sessions of two courses fill the grid to its last cell.
C16_Witness ==
  /\ pc = "done"
  /\ NoUnavailability /\ SharedResources(result.timetable)
  /\ Len(result.timetable) = NumCells
  /\ result.timetable[1].courseId # result.timetable[NumCells].courseId
  /\ AtCell(result.timetable[NumCells], NumCells)
  /\ result.success = TRUE

\* C17: when there are n > 48 such sessions, the first 48 of the list are
\* scheduled, cell by cell, and the other n - 48 stay unset; the conflict
\* list holds one could-not-be-scheduled entry for each of those and
\* nothing else, so exactly one for n = 49, and success is false.
C17_Overflow ==
  (Scheduling /\ NoUnavailability /\ SharedResources(timetable)
     /\ Len(timetable) > NumCells) =>
    /\ \A k \in 1..si : IF k <= NumCells THEN AtCell(timetable[k], k)
                                          ELSE timetable[k].timeSlot = UnsetSlot
    /\ pc = "done" =>
          /\ result.timetable = timetable
          /\ Len(result.conflicts) = Len(timetable) - NumCells
          /\ \A n \in DOMAIN result.conflicts :
                /\ IsUnscheduledConflict(result.conflicts[n])
                /\ result.conflicts[n].severity = "high"
          /\ result.success = FALSE

\* 49 sessions: the last one is left over.
C17_Witness ==
  /\ pc = "done"
  /\ NoUnavailability /\ SharedResources(result.timetable)
  /\ Len(result.timetable) = NumCells + 1
  /\ AtCell(result.timetable[NumCells], NumCells)
  /\ result.timetable[NumCells + 1].timeSlot = UnsetSlot
  /\ Len(result.conflicts) = 1
  /\ result.success = FALSE

\* The scheduled sessions of list tt that use faculty id f (room id r).
ScheduledOnFaculty(tt, f) ==
  { j \in DOMAIN tt : tt[j].timeSlot.day # "" /\ tt[j].timeSlot.time # "" /\ tt[j].facultyId = f }

ScheduledInRoom(tt, r) ==
  { j \in DOMAIN tt : tt[j].timeSlot.day # "" /\ tt[j].timeSlot.time # "" /\ tt[j].roomId = r }

WithinCapacity(tt, sessions, unavailable) ==
  /\ Cardinality(sessions) <= NumCells
  /\ \A label \in Range(TIME_SLOTS) :
        LET n == Cardinality({ j \in sessions : tt[j].timeSlot.time = label })
        IN  /\ n <= Len(WEEKDAYS)
            /\ label \in unavailable => n = 0

\* C18: at every moment of a run, a faculty id has at most 48 scheduled
\* sessions, at most 6 at any one time label and none at a label of that
\* faculty member's unavailableSlots; likewise every room id.
C18_CapacityCeiling ==
  /\ \A m \in DOMAIN storage.faculty :
        WithinCapacity(timetable, ScheduledOnFaculty(timetable, storage.faculty[m].id),
                       storage.faculty[m].unavailableSlots)
  /\ \A m \in DOMAIN storage.rooms :
        WithinCapacity(timetable, ScheduledInRoom(timetable, storage.rooms[m].id),
                       storage.rooms[m].unavailableSlots)

\* A faculty member never free at the first label, in a room closed at the
\* last, is given more sessions than the 36 cells left: 36 are scheduled, 6
\* at each of the other labels.
C18_Witness ==
  /\ pc = "done"
  /\ storage.faculty[1].unavailableSlots = {FirstLabel}
  /\ storage.rooms[1].unavailableSlots = {LastLabel}
  /\ Len(result.timetable) > NumCells
  /\ Cardinality(ScheduledOnFaculty(result.timetable, 1)) = NumCells - 2 * Len(WEEKDAYS)
  /\ \A label \in Range(TIME_SLOTS) \ {FirstLabel, LastLabel} :
        Cardinality({ j \in ScheduledInRoom(result.timetable, 1) :
                        result.timetable[j].timeSlot.time = label }) = Len(WEEKDAYS)

\* A faculty member free at every label reaches the ceiling of 48.
C18_WitnessFull ==
  /\ pc = "done"
  /\ Len(result.timetable) > NumCells
  /\ Cardinality(ScheduledOnFaculty(result.timetable, 1)) = NumCells

\* ------------------------------------------------------------ termination

\* Catalogs of the fair specification: the catalogs with missing parts, and
\* the scheduling catalogs short of the longest course lists.
TerminationCatalogs ==
  SparseCatalogs \cup { c \in SchedulingCatalogs : Len(c.courses) < MaxCourses }

InitTermination == InitWith(TerminationCatalogs)

\* generateTimetable is one synchronous call: once entered, every loop
\* iteration that can run does run.
FairSpec == InitTermination /\ [][Next]_vars /\ WF_vars(Next)

\* A complete GenerationResult: the four fields, written by a return.
ResultComplete ==
  /\ DOMAIN result = {"timetable", "conflicts", "success", "message"}
  /\ result.success \in BOOLEAN
  /\ result.message \in {MsgEmptyCatalog, MsgNoCourses, MsgSuccess,
                          MsgConflicts(Len(result.conflicts))}
  /\ \A j \in DOMAIN result.timetable : result.timetable[j].timeSlot.duration = 1
  /\ \A n \in DOMAIN result.conflicts : result.conflicts[n].severity = "high"

\* C19: for every catalog and every selection, generateTimetable comes to
\* its return and hands back a complete result record.
C19_Terminates == <>(pc = "done" /\ calls = 1 /\ ResultComplete)

\* A call that went through both loops has returned sessions and conflicts.
C19_Witness ==
  /\ pc = "done" /\ calls = 1 /\ ResultComplete
  /\ ci = Len(sortedCourses) /\ ci > 0
  /\ si = Len(timetable) /\ si > 1
  /\ Len(result.timetable) = si
  /\ Len(result.conflicts) > 0

\* ------------------------------------------------- the life of a slot

\* What one step may do to the slots of the session list.
SlotStep ==
  /\ Len(timetable') >= Len(timetable)
  /\ \A j \in DOMAIN timetable' \ DOMAIN timetable :
        timetable'[j].timeSlot = UnsetSlot
  /\ \A j \in DOMAIN timetable \cap DOMAIN timetable' :
        timetable'[j].timeSlot # timetable[j].timeSlot =>
          /\ pc = "schedule" /\ j = si + 1 /\ si' = j
          /\ timetable[j].timeSlot = UnsetSlot
          /\ \E k \in 1..NumCells : AtCell(timetable'[j], k)
          /\ timetable'[j].timeSlot.duration = 1
  /\ (pc = "schedule" /\ pc' = "done") => result'.timetable = timetable

\* C20: a session is created with an unset slot (empty day, empty time,
\* duration 1); its slot changes at most once, in its own turn of the
\* assignment, from unset to a cell of the grid with duration 1, and never
\* again; a session that is unset when its turn ends stays unset through
\* the rest of the assignment and through conflict detection, which returns
\* the list as the assignment left it.
C20_SlotLifecycle == [][SlotStep]_vars

\* A returned list in which a session that stayed unset is followed by a
\* session that was given a cell after it.
C20_Witness ==
  /\ pc = "done"
  /\ result.timetable = timetable
  /\ \E j \in DOMAIN timetable : \E k \in DOMAIN timetable :
        /\ j < k
        /\ timetable[j].timeSlot = UnsetSlot
        /\ timetable[k].timeSlot.day # "" /\ timetable[k].timeSlot.time # ""
        /\ timetable[k].timeSlot.duration = 1

\* ------------------------------------------- what scheduleEntries may touch

\* A session with its slot blanked: everything scheduleEntries must keep.
WithoutSlot(e) == [e EXCEPT !.timeSlot = UnsetSlot]

SchedulingKeeps ==
  pc = "schedule" =>
    /\ Len(timetable') = Len(timetable)
    /\ \A j \in DOMAIN timetable :
         /\ WithoutSlot(timetable'[j]) = WithoutSlot(timetable[j])
         /\ j # si + 1 => timetable'[j] = timetable[j]
    /\ pc' = "done" =>
         /\ Len(result'.timetable) = Len(timetable)
         /\ \A j \in DOMAIN timetable : result'.timetable[j] = timetable[j]

\* C21: scheduleEntries returns the sessions it was given, as many and in
\* the same order, and of a session it changes nothing but the slot: course,
\* kind, faculty, room, program, head-count and identifier stay as
\* createCourseEntries wrote them.
C21_OnlySlotsChange == [][SchedulingKeeps]_vars

\* The assignment has returned three or more sessions, one of them moved past
\* the first day and one left without a slot.
C21_Witness ==
  /\ FullRun
  /\ si = Len(timetable) /\ Len(result.timetable) >= 3
  /\ \E j \in DOMAIN result.timetable :
        /\ HasSlot(result.timetable[j])
        /\ result.timetable[j].timeSlot.day # WEEKDAYS[1]
  /\ \E j \in DOMAIN result.timetable : result.timetable[j].timeSlot = UnsetSlot

\* ------------------------------------------ the catalog edited between calls
\*
\* The management pages write the stored collections while the generator is
\* not running; the generator page constructs a generator anew on a render.

\* What the management pages may store under each key.
EditedPrograms == { <<ProgramRec(1)>>, <<ProgramRec(1), ProgramRec(2)>> }

EditedCourseFields ==
  [ program : ProgramRefs, isElective : {FALSE}, semester : {1},
    theoryHours : {1}, practicalHours : {0, MaxHours},
    text : {TextA, TextB} ]

EditedCourses == CourseListsUpTo(0, 1, EditedCourseFields)

EditedFaculty ==
  { << FacultyRec(1, {1}, <<KeywordA>>, u1),
       FacultyRec(2, {1}, <<KeywordB>>, {FirstLabel}) >> : u1 \in {{}, AllButLast} }

EditedRooms ==
  { <<>>, << RoomRec(1, "Classroom", {}), RoomRec(2, "Laboratory", {FirstLabel}) >> }

EditedCatalogs ==
  { [ programs |-> ps, courses |-> cs, faculty |-> fs, rooms |-> rs ]
    : ps \in EditedPrograms, cs \in EditedCourses,
      fs \in EditedFaculty, rs \in EditedRooms }

InitEdit == InitWith(EditedCatalogs)

\* A management page saves a collection; the clock has moved on since the
\* generator was last used.
Save(key, value) ==
  /\ pc = "idle"
  /\ instance = 1
  /\ clock < MaxClock
  /\ value # storage[key]
  /\ storage' = [storage EXCEPT ![key] = value]
  /\ clock' = clock + 1
  /\ UNCHANGED <<instance, page, programs, courses, faculty, rooms,
                 selectedPrograms, pc, sortedCourses, ci, timetable, si,
                 occupiedSlots, result, calls>>

savePrograms == \E updatedPrograms \in EditedPrograms : Save("programs", updatedPrograms)

saveCourses == \E updatedCourses \in EditedCourses : Save("courses", updatedCourses)

saveFaculty == \E updatedFaculty \in EditedFaculty : Save("faculty", updatedFaculty)

saveRooms == \E updatedRooms \in EditedRooms : Save("rooms", updatedRooms)

\* The page renders again after a call has returned: `new Generator()` runs
\* the constructor, which loads the four collections; the result of the call
\* stays with the page, and so does the selection.
Reconstruct ==
  /\ pc = "done"
  /\ instance = 1
  /\ instance' = 2
  /\ programs' = storage.programs
  /\ courses' = storage.courses
  /\ faculty' = storage.faculty
  /\ rooms' = storage.rooms
  /\ pc' = "idle"
  /\ sortedCourses' = <<>>
  /\ ci' = 0
  /\ timetable' = <<>>
  /\ si' = 0
  /\ occupiedSlots' = EmptyMap
  /\ UNCHANGED <<page, storage, selectedPrograms, result, clock, calls>>

\* The first generator is called with any selection; the generator
\* constructed after it is called with the selection of the call before.
EditSelections == IF instance = 1 THEN Selections ELSE {selectedPrograms}

NextEdit ==
  \/ \E selected \in EditSelections : ReturnEmptyCatalog(selected)
  \/ \E selected \in EditSelections : ReturnNoCourses(selected)
  \/ \E selected \in EditSelections : BeginExpansion(selected)
  \/ ExpandCourse
  \/ ScheduleEntry
  \/ FinishGeneration
  \/ CallAgain
  \/ savePrograms
  \/ saveCourses
  \/ saveFaculty
  \/ saveRooms
  \/ Reconstruct

SpecEdit == InitEdit /\ [][NextEdit]_vars

FieldsAreStored ==
  /\ programs = storage.programs
  /\ courses = storage.courses
  /\ faculty = storage.faculty
  /\ rooms = storage.rooms

ReloadStep ==
  /\ pc \in {"expand", "schedule", "done"} => FieldsAreStored
  /\ (instance = 2 /\ calls' = calls + 1) => SameButIds(result, result')
  /\ (pc # "idle" \/ pc' # "idle") => storage' = storage

\* C22: a call of generateTimetable works on the catalog as stored when the
\* call starts: after the stored catalog was edited, whatever the catalog
\* was at construction and whatever was called before, the call returns what
\* a generator constructed on the edited catalog returns for the same
\* selection (session ids excepted), and no step of a call writes any of the
\* four stored collections.
C22_ReloadPerCall == [][ReloadStep]_vars

\* A generator constructed anew has returned a list with a placed session,
\* stamped after an edit, to be compared with the result of the second call
\* of the generator before it.
C22_Witness ==
  /\ instance = 2
  /\ pc = "done"
  /\ calls = 3
  /\ Len(result.timetable) > 0
  /\ result.timetable[1].id[4] > 0
  /\ HasSlot(result.timetable[1])

\* ------------------------------------------------- first fit against the best
\*
\* One room; a faculty member free at two labels teaches a course of as many
\* sessions as fill every cell of the earlier label; a second faculty member,
\* free at the earlier label only, teaches a one-session course after it.

\* Sessions of the first course: both labels on every day but the last cell.
LongHours == 2 * Len(WEEKDAYS) - 1

AllBut(labels) == Range(TIME_SLOTS) \ labels

GreedyCatalogs ==
  { [ programs |-> <<ProgramRec(1)>>,
      courses  |-> << CourseRec(1, 1, FALSE, 1, LongHours, 0, TextA),
                      CourseRec(2, 1, FALSE, 1, 1, 0, TextB) >>,
      faculty  |-> << FacultyRec(1, {1}, <<KeywordA>>,
                                 AllBut({TIME_SLOTS[ab[1]], TIME_SLOTS[ab[2]]})),
                      FacultyRec(2, {1}, <<KeywordB>>, AllBut({TIME_SLOTS[ab[1]]})) >>,
      rooms    |-> << RoomRec(1, "Classroom", {}) >> ]
    : ab \in { p \in (DOMAIN TIME_SLOTS) \X (DOMAIN TIME_SLOTS) : p[1] < p[2] } }

InitGreedy == InitWith(GreedyCatalogs)

GreedySelections == { {1}, {1, 2} }

NextGreedy ==
  \/ \E selected \in GreedySelections : BeginExpansion(selected)
  \/ ExpandCourse
  \/ ScheduleEntry
  \/ FinishGeneration

SpecGreedy == InitGreedy /\ [][NextGreedy]_vars

\* An assignment of every session of tt to a cell, cells[j] for tt[j], that
\* keeps to the rules of the assignment: no label at which the faculty or the
\* room of the session is unavailable, and no cell shared by two sessions of
\* one faculty member or of one room.
CompleteAssignment(tt, cells) ==
  /\ DOMAIN cells = DOMAIN tt
  /\ \A j \in DOMAIN tt :
       /\ cells[j] \in 1..NumCells
       /\ CellTime(cells[j]) \notin ClosedLabels(tt[j])
  /\ \A i, j \in DOMAIN tt :
       (i < j /\ cells[i] = cells[j]) =>
         /\ tt[i].facultyId # tt[j].facultyId
         /\ tt[i].roomId # tt[j].roomId

\* The returned list rearranged: the last session takes the cell of the
\* first, every other session the cell of its successor, and the last but
\* one the latest cell its faculty and room are open at.
Rearranged(tt) ==
  [ j \in DOMAIN tt |->
      IF j = Len(tt) THEN CellIndex(tt[1])
      ELSE IF j < Len(tt) - 1 THEN CellIndex(tt[j + 1])
      ELSE CHOOSE k \in 1..NumCells :
             /\ CellTime(k) \notin ClosedLabels(tt[j])
             /\ \A h \in (k + 1)..NumCells : CellTime(h) \in ClosedLabels(tt[j]) ]

BatchCourseFields ==
  [ program : {1}, isElective : {FALSE}, semester : {1},
    theoryHours : {0, MaxHours}, practicalHours : {0, MaxHours},
    text : {TextA} ]

BatchCatalogs ==
  { [ programs |-> <<ProgramRec(1)>>, courses |-> cs, faculty |-> fs, rooms |-> rs ]
    : cs \in CourseLists(1, BatchCourseFields),
      fs \in { <<>>, <<FacultyRec(1, {1}, <<>>, {})>>,
               <<FacultyRec(1, {}, <<>>, {}), FacultyRec(2, {1}, <<KeywordA>>, {})>> },
      rs \in { <<>>, <<RoomRec(1, "Classroom", {})>>,
               <<RoomRec(1, "Classroom", {}), RoomRec(2, "Laboratory", {})>> } }

\* The loop over sortedCourses is about to start.
InitBatch ==
  /\ clock = 0
  /\ storage \in BatchCatalogs
  /\ programs = storage.programs
  /\ courses = storage.courses
  /\ faculty = storage.faculty
  /\ rooms = storage.rooms
  /\ selectedPrograms = {1}
  /\ pc = "expand"
  /\ sortedCourses = SortCourses(RelevantCourses(storage.courses, {1}))
  /\ ci = 0
  /\ timetable = <<>>
  /\ si = 0
  /\ occupiedSlots = EmptyMap
  /\ result = NoResult
  /\ calls = 0
  /\ instance = 1
  /\ page = MountedPage(storage)

\* What Date.now() may return for n entries pushed one after the other: no
\* reading is earlier than the one before it.
Readings(n) ==
  { s \in [1..n -> clock..MaxClock] : \A k \in 1..(n - 1) : s[k] <= s[k + 1] }

\* The entries with the clock read entry by entry.
Restamp(entries, stamps) ==
  [ k \in DOMAIN entries |->
      [entries[k] EXCEPT !.id = <<@[1], @[2], @[3], stamps[k]>>] ]

\* One iteration of `for (const course of sortedCourses)` while time passes.
ExpandCourseWhileClockRuns ==
  /\ pc = "expand"
  /\ ci < Len(sortedCourses)
  /\ \E batch \in {CourseEntries(sortedCourses[ci + 1])} :
       \E stamps \in Readings(Len(batch)) :
          /\ timetable' = timetable \o Restamp(batch, stamps)
          /\ clock' = IF Len(batch) = 0 THEN clock ELSE stamps[Len(batch)]
  /\ ci' = ci + 1
  /\ pc' = IF ci' = Len(sortedCourses) THEN "schedule" ELSE "expand"
  /\ UNCHANGED <<instance, page, storage, programs, courses, faculty, rooms, selectedPrograms,
                 sortedCourses, si, occupiedSlots, result, calls>>

NextBatch == ExpandCourseWhileClockRuns

SpecBatch == InitBatch /\ [][NextBatch]_vars

\* The sessions of tt that one createCourseEntries call pushed with e.
BatchOf(tt, e) ==
  SelectSeq(tt, LAMBDA x : x.courseId = e.courseId /\ x.type = e.type)

WithoutId(e) == [e EXCEPT !.id = <<>>]

HoursOf(e) ==
  LET course == CHOOSE c \in Range(courses) : c.id = e.courseId
  IN  IF e.type = "theory" THEN course.theoryHours ELSE course.practicalHours

\* Everything the claim says of a batch but the stamps of its identifiers.
BatchAgrees(b) ==
  \A k \in DOMAIN b :
    /\ WithoutId(b[k]) = WithoutId(b[1])
    /\ b[k].timeSlot = UnsetSlot
    /\ b[k].id[1] = b[k].courseId /\ b[k].id[2] = b[k].type
    /\ b[k].id[3] = k - 1

AllOrNothing ==
  /\ \A j \in DOMAIN timetable :
       Len(BatchOf(timetable, timetable[j])) = HoursOf(timetable[j])
  /\ (faculty = <<>> \/ rooms = <<>>) => timetable = <<>>

C24_WitnessNoRoom ==
  /\ ci = 1
  /\ rooms = <<>> /\ faculty # <<>>
  /\ sortedCourses[1].theoryHours > 0
  /\ timetable = <<>>

\* ------------------------------------------------- the sessions of one course

\* Catalogs of two courses, and sparse catalogs of at most one course.
PairCatalogs ==
  { c \in SchedulingCatalogs : Len(c.courses) = 2 }
    \cup { c \in SparseCatalogs : Len(c.courses) <= 1 }

InitPairs == InitWith(PairCatalogs)

SpecPairs == InitPairs /\ [][Next]_vars

\* C25: the faculty member of a session does not depend on its kind: all
\* sessions of one course, theory and practical, carry the same faculty id,
\* and in the list the theory sessions of a course come before its
\* practical sessions.
C25_OneFacultyTheoryFirst ==
  /\ \A i, j \in DOMAIN timetable :
       timetable[i].courseId = timetable[j].courseId =>
         /\ timetable[i].facultyId = timetable[j].facultyId
         /\ (timetable[i].type = "theory" /\ timetable[j].type = "practical") => i < j
  /\ pc = "done" =>
       \A i, j \in DOMAIN result.timetable :
         result.timetable[i].courseId = result.timetable[j].courseId =>
           /\ result.timetable[i].facultyId = result.timetable[j].facultyId
           /\ (result.timetable[i].type = "theory"
                 /\ result.timetable[j].type = "practical") => i < j

\* A returned list of two courses taught by different faculty members, each
\* with theory and practical sessions, in rooms of different kinds.
C25_Witness ==
  /\ FullRun
  /\ \E i, j, k, l \in DOMAIN result.timetable :
       /\ i < j /\ j < k /\ k < l
       /\ result.timetable[i].courseId = result.timetable[j].courseId
       /\ result.timetable[k].courseId = result.timetable[l].courseId
       /\ result.timetable[i].courseId # result.timetable[k].courseId
       /\ result.timetable[i].type = "theory" /\ result.timetable[j].type = "practical"
       /\ result.timetable[k].type = "theory" /\ result.timetable[l].type = "practical"
       /\ result.timetable[i].facultyId # result.timetable[k].facultyId
       /\ result.timetable[i].roomId # result.timetable[j].roomId

\* ----------------------------------------------------- monotone placement

\* The position in scan order of the cell of each session, 0 without slot.
ScanPositions(tt) ==
  [ j \in DOMAIN tt |-> IF OnGrid(tt[j]) THEN CellIndex(tt[j]) ELSE 0 ]

\* C26: of two processed sessions with the same faculty member and the same
\* room, the later in the list never gets an earlier or the same cell: if
\* both have a slot, the cell of the later one comes strictly later in scan
\* order (days in week order, labels in day order); if the earlier one was
\* left without slot, so was the later one.
C26_MonotonePlacement ==
  LET at == ScanPositions(timetable)
  IN  /\ \A i, j \in 1..si :
           ( /\ i < j
             /\ timetable[i].facultyId = timetable[j].facultyId
             /\ timetable[i].roomId = timetable[j].roomId )
           => /\ (HasSlot(timetable[i]) /\ HasSlot(timetable[j])) =>
                   (at[i] > 0 /\ at[i] < at[j])
              /\ Unset(timetable[i]) => Unset(timetable[j])
      /\ \A j \in 1..si : HasSlot(timetable[j]) \/ Unset(timetable[j])

\* A returned list where two sessions of one faculty member and one room sit
\* on different days, and a session of another faculty member, later in the
\* list, sits before both.
C26_Witness ==
  /\ FullRun
  /\ \E i, j, k \in DOMAIN timetable :
       /\ i < j /\ j < k
       /\ timetable[i].facultyId = timetable[j].facultyId
       /\ timetable[i].roomId = timetable[j].roomId
       /\ timetable[k].facultyId # timetable[i].facultyId
       /\ HasSlot(timetable[i]) /\ HasSlot(timetable[j]) /\ HasSlot(timetable[k])
       /\ timetable[i].timeSlot.day # timetable[j].timeSlot.day
       /\ CellIndex(timetable[k]) < CellIndex(timetable[i])

\* A returned list where two sessions of one faculty member and one room
\* were both left without slot.
C26_WitnessUnset ==
  /\ FullRun
  /\ \E i, j \in DOMAIN timetable :
       /\ i < j
       /\ timetable[i].facultyId = timetable[j].facultyId
       /\ timetable[i].roomId = timetable[j].roomId
       /\ Unset(timetable[i]) /\ Unset(timetable[j])

\* ------------------------------------------------ what a final return says
\*
\* Short catalogs, sparse ones among them, without the fairness condition.

SpecShort == InitTermination /\ [][Next]_vars

\* C27: every conflict detectConflicts emits, the notice for an unscheduled
\* session and the faculty and room collisions alike, has severity high;
\* so in every result of the final return these four say the same: success
\* is true; the conflict list is empty; every session of the list has a
\* slot; the message is the success message.
C27_FourWaysToSaySuccess ==
  /\ \A e \in Range(timetable) :
       /\ FacultyConflict(e, EntryKey(e)).severity = "high"
       /\ RoomConflict(e, EntryKey(e)).severity = "high"
  /\ FullRun =>
       /\ \A c \in Range(result.conflicts) : c.severity = "high"
       /\ result.success = TRUE <=> Len(result.conflicts) = 0
       /\ Len(result.conflicts) = 0 <=>
            \A j \in DOMAIN result.timetable : HasSlot(result.timetable[j])
       /\ result.success = TRUE <=> result.message = MsgSuccess

\* A final return with a session left out: success is false, the list of
\* conflicts is not empty, the message counts them.
C27_Witness ==
  /\ FullRun
  /\ result.success = FALSE
  /\ Len(result.conflicts) > 0
  /\ \E j \in DOMAIN result.timetable : ~HasSlot(result.timetable[j])
  /\ result.message = MsgConflicts(Len(result.conflicts))

\* A final return with every session placed and the success message.
C27_WitnessSuccess ==
  /\ FullRun
  /\ Len(result.timetable) > 0
  /\ result.success = TRUE
  /\ result.message = MsgSuccess

\* No selected course has a session to give: its hours are both 0, or its
\* program is not in the program catalog.
NothingToSchedule ==
  \A i \in DOMAIN courses :
    courses[i].program \in selectedPrograms =>
      \/ courses[i].theoryHours = 0 /\ courses[i].practicalHours = 0
      \/ \A k \in DOMAIN programs : programs[k].id # courses[i].program

\* C28: with four non-empty catalogs and a course in a selected program,
\* when every such course gives no session (both hours 0, or a program id
\* that is not in the program catalog), generateTimetable returns an empty
\* timetable and an empty conflict list with success = true and the success
\* message.
C28_EmptySuccess ==
  (FullRun /\ NothingToSchedule) =>
    /\ result.timetable = <<>>
    /\ result.conflicts = <<>>
    /\ result.success = TRUE
    /\ result.message = MsgSuccess

\* A final return for a selected course without hours.
C28_Witness ==
  /\ FullRun /\ NothingToSchedule
  /\ \E i \in DOMAIN courses :
       /\ courses[i].program \in selectedPrograms
       /\ \E k \in DOMAIN programs : programs[k].id = courses[i].program
       /\ courses[i].theoryHours = 0 /\ courses[i].practicalHours = 0
  /\ result.success = TRUE

\* A final return for a selected course of a program that is not stored.
C28_WitnessNoProgram ==
  /\ FullRun /\ NothingToSchedule
  /\ \E i \in DOMAIN courses :
       /\ courses[i].program \in selectedPrograms
       /\ \A k \in DOMAIN programs : programs[k].id # courses[i].program
       /\ courses[i].theoryHours > 0
  /\ result.timetable = <<>>

\* ------------------------------------------------------- the grid view
\*
\* TimetableGrid marks a cell when hasConflict says so.  The list it is
\* given is the timetable of a result: one that generateTimetable returned,
\* or any list detectConflicts was run on.

\* Mutant: the filter compares the day only.
getEntriesForSlotDayOnly(tt, day, timeSlot) ==
  SelectSeq(tt, LAMBDA entry : entry.timeSlot.day = day)

\* timetable.filter(entry => day and time of its slot are those of the cell)
getEntriesForSlot(tt, day, timeSlot) ==
  SelectSeq(tt, LAMBDA entry : entry.timeSlot.day = day /\ entry.timeSlot.time = timeSlot)

\* The loop of hasConflict from entry k on: it returns true at the first
\* entry whose faculty id or room id was seen before.
RECURSIVE SeenBefore(_, _, _, _)
SeenBefore(entries, k, facultyIds, roomIds) ==
  IF k > Len(entries) THEN FALSE
  ELSE IF entries[k].facultyId \in facultyIds \/ entries[k].roomId \in roomIds THEN TRUE
  ELSE SeenBefore(entries, k + 1, facultyIds \cup {entries[k].facultyId},
                  roomIds \cup {entries[k].roomId})

hasConflict(tt, day, timeSlot) ==
  LET entries == getEntriesForSlot(tt, day, timeSlot)
  IN  IF Len(entries) <= 1 THEN FALSE ELSE SeenBefore(entries, 1, {}, {})

\* A list handed to the grid that scheduleEntries need not have produced:
\* sessions without slot and sessions in the first two cells.
GridList(tt) ==
  \A j \in DOMAIN tt : tt[j].timeSlot.day = "" \/ tt[j].timeSlot.time # ""

\* Catalogs for the lists that scheduleEntries produces: two courses of
\* different faculty, the first with MaxHours theory sessions, the second
\* with practical sessions; and catalogs without rooms.
GridCatalogs ==
  { c \in SchedulingCatalogs :
      /\ Len(c.courses) = 2
      /\ c.courses[1].theoryHours = MaxHours /\ c.courses[1].practicalHours = 0
      /\ c.courses[2].theoryHours = 1 /\ c.courses[2].practicalHours = MaxHours
      /\ c.courses[1].description # c.courses[2].description }
    \cup { c \in SparseCatalogs : c.rooms = <<>> /\ Len(c.courses) <= 1 }

InitGrid ==
  \/ InitDetect /\ GridList(timetable)
  \/ InitWith(GridCatalogs)

SpecGrid == InitGrid /\ [][Next]_vars

\* The conflict list has a faculty or room collision at this cell.
CollisionAt(conflicts, day, timeSlot) ==
  \E n \in DOMAIN conflicts :
    /\ conflicts[n].type \in {"faculty_conflict", "room_conflict"}
    /\ Len(conflicts[n].description) = 4
    /\ conflicts[n].description[3] = " has multiple classes at "
    /\ conflicts[n].description[4] = <<day, timeSlot>>

\* C29: for the session list of a result and every cell of the grid,
\* hasConflict(day, time) is true exactly if detectConflicts emitted a
\* faculty or room collision for that cell; and it is false for every cell
\* of a timetable that scheduleEntries produced.
C29_GridAgreesWithDetector ==
  pc = "done" =>
    \A k \in 1..NumCells :
      /\ hasConflict(result.timetable, CellDay(k), CellTime(k))
           <=> CollisionAt(result.conflicts, CellDay(k), CellTime(k))
      /\ FullRun => ~hasConflict(result.timetable, CellDay(k), CellTime(k))

\* Three sessions in the first cell: the first two share neither faculty
\* nor room, the third has the faculty of the first and the room of the
\* second; the grid marks the cell, and no other.
C29_Witness ==
  /\ pc = "done"
  /\ Len(result.timetable) = 3
  /\ \A j \in 1..3 : AtCell(result.timetable[j], 1)
  /\ result.timetable[1].facultyId # result.timetable[2].facultyId
  /\ result.timetable[1].roomId # result.timetable[2].roomId
  /\ result.timetable[3].facultyId = result.timetable[1].facultyId
  /\ result.timetable[3].roomId = result.timetable[2].roomId
  /\ hasConflict(result.timetable, CellDay(1), CellTime(1))
  /\ \A k \in 2..NumCells : ~hasConflict(result.timetable, CellDay(k), CellTime(k))

\* A timetable from scheduleEntries with two sessions in one cell, of
\* different faculty and rooms: the grid marks no cell.
C29_WitnessScheduled ==
  /\ FullRun
  /\ \E i, j \in DOMAIN result.timetable :
       /\ i < j
       /\ HasSlot(result.timetable[i])
       /\ result.timetable[i].timeSlot = result.timetable[j].timeSlot
  /\ \A k \in 1..NumCells : ~hasConflict(result.timetable, CellDay(k), CellTime(k))

\* ------------------------------------------------------ the generator page
\*
\* handleGenerateTimetable is an async function: the part before the await
\* runs on the click, the rest after the 1500 ms timer.  The call of
\* generateTimetable in it is the run of the engine modelled above; it may
\* also throw (loadData parses what is stored), and so may the write of the
\* snapshot.  isGenerating disables the Generate button.

ToastSelect == <<"Please select at least one program">>
ToastSuccess == <<"Timetable generated successfully!">>
ToastWarning == <<"Timetable generated with conflicts. Please review.">>
ToastFailed == <<"Failed to generate timetable. Please try again.">>
MsgError == <<"An error occurred during generation.">>

PageCatalogs ==
  { [ programs |-> ps,
      courses  |-> <<CourseRec(1, 1, FALSE, 1, 1, 0, TextA)>>,
      faculty  |-> <<FacultyRec(1, {1}, <<>>, u)>>,
      rooms    |-> rs ]
    : ps \in {<<>>, <<ProgramRec(1)>>, <<ProgramRec(1), ProgramRec(2)>>},
      u \in {{}, Range(TIME_SLOTS)},
      rs \in {<<>>, <<RoomRec(1, "Classroom", {})>>} }

InitPage == InitWith(PageCatalogs)

\* Everything of the generator: a step of the page alone leaves it as it is.
engineVars ==
  <<storage, programs, courses, faculty, rooms, selectedPrograms, sortedCourses,
    ci, timetable, si, occupiedSlots, result, clock, calls, instance>>

\* handleProgramSelection(programId), for a program the page lists.
handleProgramSelection ==
  /\ \E k \in DOMAIN storage.programs :
       LET programId == storage.programs[k].id
       IN  page' = [page EXCEPT !.selectedPrograms =
                      IF programId \in @ THEN @ \ {programId} ELSE @ \cup {programId}]
  /\ UNCHANGED <<engineVars, pc>>

\* handleGenerateTimetable with nothing selected: a toast, and return.
RejectEmptySelection ==
  /\ ~page.isGenerating
  /\ page.selectedPrograms = {}
  /\ page' = [page EXCEPT !.toast = ToastSelect]
  /\ UNCHANGED <<engineVars, pc>>

\* Mutant: the selection is not looked at.
BeginGenerateUnchecked ==
  /\ ~page.isGenerating
  /\ pc = "idle"
  /\ calls < MaxCalls
  /\ page' = [page EXCEPT !.isGenerating = TRUE, !.request = page.selectedPrograms]
  /\ UNCHANGED <<engineVars, pc>>

\* handleGenerateTimetable up to the await: setIsGenerating(true); the
\* closure keeps the selection of this render.
BeginGenerate ==
  /\ ~page.isGenerating
  /\ page.selectedPrograms # {}
  /\ pc = "idle"
  /\ calls < MaxCalls
  /\ page' = [page EXCEPT !.isGenerating = TRUE, !.request = page.selectedPrograms]
  /\ UNCHANGED <<engineVars, pc>>

\* After the timer: generator.generateTimetable(selectedPrograms) starts.
Invoke ==
  /\ page.isGenerating
  /\ \E selected \in {page.request} :
       \/ ReturnEmptyCatalog(selected)
       \/ ReturnNoCourses(selected)
       \/ BeginExpansion(selected)

\* After the timer: generateTimetable throws; catch, then finally.
GenerateThrows ==
  /\ page.isGenerating
  /\ pc = "idle"
  /\ page' = [page EXCEPT !.generationSuccess = <<FALSE>>,
                          !.generationMessage = MsgError,
                          !.toast = ToastFailed,
                          !.isGenerating = FALSE]
  /\ UNCHANGED <<engineVars, pc>>

\* generateTimetable has returned: the four setters, the snapshot, the
\* toast, then finally.
ReceiveResult ==
  /\ page.isGenerating
  /\ pc = "done"
  /\ page' = [page EXCEPT !.timetable = result.timetable,
                          !.conflicts = result.conflicts,
                          !.generationSuccess = <<result.success>>,
                          !.generationMessage = result.message,
                          !.snapshot = <<result>>,
                          !.toast = IF result.success THEN ToastSuccess ELSE ToastWarning,
                          !.isGenerating = FALSE]
  /\ pc' = "idle"
  /\ UNCHANGED engineVars

\* generateTimetable has returned but localStorage.setItem throws: the four
\* setters have run, then catch, then finally.
StoreThrows ==
  /\ page.isGenerating
  /\ pc = "done"
  /\ page' = [page EXCEPT !.timetable = result.timetable,
                          !.conflicts = result.conflicts,
                          !.generationSuccess = <<FALSE>>,
                          !.generationMessage = MsgError,
                          !.toast = ToastFailed,
                          !.isGenerating = FALSE]
  /\ pc' = "idle"
  /\ UNCHANGED engineVars

\* What happens by itself once a request was accepted.
Continue ==
  \/ Invoke
  \/ GenerateThrows
  \/ ExpandCourse
  \/ ScheduleEntry
  \/ FinishGeneration
  \/ ReceiveResult
  \/ StoreThrows

NextPage ==
  \/ handleProgramSelection
  \/ RejectEmptySelection
  \/ BeginGenerate
  \/ Continue

\* The timer fires and the code after the await runs to its end.
FairPage == InitPage /\ [][NextPage]_vars /\ WF_vars(Continue)

\* What a generation shows and stores.
Shown(p) ==
  <<p.timetable, p.conflicts, p.generationSuccess, p.generationMessage, p.snapshot>>

PageStep ==
  /\ (~page.isGenerating /\ page.selectedPrograms = {} /\ page'.selectedPrograms = {}) =>
       /\ ~page'.isGenerating
       /\ Shown(page') = Shown(page)
       /\ pc' = pc /\ calls' = calls
  /\ (~page.isGenerating /\ page'.isGenerating) =>
       /\ page.selectedPrograms # {}
       /\ page'.request = page.selectedPrograms
       /\ Shown(page') = Shown(page)
  /\ page'.snapshot # page.snapshot =>
       /\ page.isGenerating /\ pc = "done"
       /\ page'.snapshot = <<result>>
  /\ (page.isGenerating /\ ~page'.isGenerating) =>
       \/ page'.snapshot = <<result>> /\ pc = "done"
       \/ page'.snapshot = page.snapshot /\ page'.generationSuccess = <<FALSE>>
  /\ pc # "idle" => page.isGenerating

\* C30: a generate request with no program selected starts no generation
\* and leaves the shown timetable, conflicts and status and the stored
\* 'generated_timetable' as they are; a request with a selection sets
\* isGenerating, and isGenerating is set back to false in the end, whether
\* generateTimetable returns or throws; the snapshot is written only when
\* generateTimetable has returned, and is then its result.
C30_GenerateRequest ==
  /\ [][PageStep]_vars
  /\ (page.isGenerating ~> ~page.isGenerating)

\* A second generation has thrown after the first one returned: the page
\* shows the failure, is no longer generating, and the snapshot is still
\* the result of the first.
C30_Witness ==
  /\ ~page.isGenerating
  /\ calls = 1
  /\ page.snapshot # NoSnapshot
  /\ page.toast = ToastFailed
  /\ page.generationSuccess = <<FALSE>>
  /\ page.generationMessage = MsgError
  /\ page.snapshot[1].message # MsgError

\* A request with nothing selected was turned away after a generation.
C30_WitnessRejected ==
  /\ page.toast = ToastSelect
  /\ page.selectedPrograms = {}
  /\ page.snapshot # NoSnapshot
  /\ ~page.isGenerating

====
